---- MODULE Spec2Model ----
(***************************************************************************)
(* A model of adversaRL: the Odyssey stream bridge (OdysseyEnv over        *)
(* OdysseyClient / MockOdysseyClient), its frame queue, the failure        *)
(* detector, the training callback and the LLM judge.                      *)
(*                                                                         *)
(* The module holds several specifications over one set of variables; each *)
(* specification moves the variables of one component and leaves the       *)
(* others at their initial values:                                         *)
(*   SpecFrames  OdysseyEnv._on_frame against a foreground consumer        *)
(*   SpecJudge   LLMJudge.evaluate_performance against a judgment service  *)
(*   SpecAdapt   the training loop's CurriculumCallback, FailureDetector   *)
(*               and CurriculumController                                  *)
(*   SpecDetector  FailureDetector.record_episode / reset_statistics, for   *)
(*               every window_size and two category configurations         *)
(*   SpecMock    MockOdysseyClient, the synthetic transport                *)
(*   SpecBridge  OdysseyEnv.reset / step / close over _run_coroutine, the  *)
(*               background loop, OdysseyClient and the simulator          *)
(*   SpecClient  OdysseyClient called directly, one awaited call at a time *)
(***************************************************************************)
EXTENDS Integers, Sequences, FiniteSets, TLC

None == "None"

Min(a, b) == IF a < b THEN a ELSE b
Max(a, b) == IF a > b THEN a ELSE b

(***************************************************************************)
(* Bounds of the model.                                                    *)
(***************************************************************************)
\* number of frames the producer delivers in SpecFrames
MaxFrames == 13
\* number of evaluate_performance calls in SpecJudge
MaxEvals == 5
\* SpecAdapt: episodes completed, steps per episode, and the configurations
\* window_size \in 1..MaxWindow, adaptation_frequency \in 1..MaxFrequency
MaxEpisodes == 4
MaxEpisodeLen == 2
MaxWindow == 3
MaxFrequency == 3
\* SpecDetector: record_episode and reset_statistics calls
MaxFdOps == 5
\* SpecMock: operations called on the mock client, frames it generates
MaxMockOps == 4
MaxMockFrames == 2
\* SpecBridge: foreground operations called on the environment, frames the
\* simulator sends
MaxCalls == 2
MaxSimFrames == 1
\* SpecClient: calls made on the client
MaxClientCalls == 5

(***************************************************************************)
(* Program constants.                                                      *)
(***************************************************************************)
\* odyssey_env.py:97  queue.Queue(maxsize=10)
QueueMaxsize == 10
\* odyssey_env.py:98  latest_frame = None: no frame (frames are numbered from 1)
NoFrame == 0
\* odyssey_client.py:39, odyssey_mock.py:31  current_stream_id = None: no stream
\* (stream identifiers are numbered from 1)
NoStream == 0
\* odyssey_env.py:125  future.result(timeout=30)
RunCoroutineTimeout == 30
\* odyssey_env.py:196  timeout = time.time() + 5: reset's wait for a first frame
FirstFrameTimeout == 5

VARIABLES
    \* ---- OdysseyEnv frame buffer (odyssey_env.py:96-98) ----
    frame_queue,      \* self.frame_queue: sequence of frames, oldest first
    latest_frame,     \* self.latest_frame: NoFrame or a frame
    \* ---- the producer callback _on_frame, one queue operation per step ----
    pcFrame,          \* position inside _on_frame: idle, assign, put, evict, reput
    curFrame,         \* the frame argument of the running _on_frame
    onFrameResult,    \* how the last _on_frame ended: None, returned, raised
    pushed,           \* number of _on_frame calls started (frames are numbered 1..)
    evicted,          \* frames removed by the overflow path's get_nowait
    dropped,          \* frames _on_frame returned without having enqueued
    \* ---- the foreground consumer ----
    dequeued,         \* number of successful consumer get_nowait calls
    lastObs,          \* frame behind the last _get_observation (0: the zero image)
    \* ---- LLMJudge (llm_judge.py:38-46); difficulty in hundredths ----
    difficulty,          \* self.difficulty
    evaluation_history,  \* self.evaluation_history
    lastJudgment,        \* what the last evaluate_performance returned
    evalOutcome,         \* how it ended: None, returned, raised
    lastReply,           \* the judgment service's reply to the last call
    difficultyBefore,    \* self.difficulty when the last call started
    evalCalls,           \* number of evaluate_performance calls
    failedCalls,         \* number of those that took the except path
    recentJudgments,     \* what get_recent_judgments returned, when it was the
                         \* last call made (else empty)
    \* ---- FailureDetector (failure_detector.py:30-41) ----
    window_size,         \* self.window_size
    min_success_rate,    \* self.min_success_rate, in percent
    episode_rewards,     \* deque(maxlen=window_size)
    episode_successes,   \* deque(maxlen=window_size)
    episode_lengths,     \* deque(maxlen=window_size)
    failure_counts,      \* tally per category, indexed like Categories
    fd_conditions,       \* FailureDetector.current_conditions
    categories,          \* self.categories, in order
    fdOps,               \* record_episode and reset_statistics calls so far
    fdCall,              \* the last of them: its arguments, the tallies before it
    recorded,            \* the episodes recorded since the last reset_statistics
    fdResult,            \* what a query returned, when it was the last call made
    \* ---- CurriculumCallback (train.py:38-45) and the environment it holds ----
    adaptation_frequency,     \* self.adaptation_frequency
    current_episode_reward,   \* self.current_episode_reward
    current_episode_length,   \* self.current_episode_length
    env_conditions,           \* env.current_conditions (NoAttr until first set)
    phase,                    \* training loop: "env" (env.step next) or "callback"
    completed,                \* number of episodes completed so far
    controllerInvoked,        \* the last _on_step called generate_perturbation
    controllerOutcome,        \* how that call ended: none, returned, raised
    lastPerturbation,         \* what the controller last returned (NoAttr: nothing)
    interactsSinceAdapt,      \* interact calls since that return (capped at 1)
    firstInteractSinceAdapt,  \* instruction of the first of them
    onStepResult,             \* what the last _on_step returned
    \* ---- MockOdysseyClient (odyssey_mock.py:28-44) ----
    mock_connected,        \* self.connected
    mock_stream_id,        \* self.current_stream_id (NoStream: None)
    mock_should_stream,    \* self._should_stream
    mock_task,             \* self._streaming_task: none, running, cancelled
    mock_orphans,          \* generator tasks no longer referenced, still running
    mock_frame_callbacks,  \* len(self._frame_callbacks)
    mock_callbacks,        \* the events self._connection_callbacks has a callback for
    mock_lighting,         \* self.lighting
    mock_gripper_open,     \* self.gripper_open
    mock_frame_count,      \* self.frame_count
    mockStreams,           \* start_stream calls so far (stream ids are 1, 2, ..)
    mockOps,               \* operations called so far
    mockOp,                \* the last operation called
    mockPre,               \* the client's fields when it was called
    mockCalled,            \* the callbacks it invoked, in order
    \* ---- OdysseyEnv as a bridge (odyssey_env.py:92-107) ----
    env_client,       \* self.client is not None
    stream_id,        \* self.stream_id (NoStream: None)
    loop,             \* self.loop: none, starting (thread started, loop not yet
                      \* assigned), running, stopped
    \* ---- the foreground thread ----
    fgOp,             \* the operation called last: none, reset, step, close
    fgPc,             \* idle, spawning (the 0.5 s sleep), waiting (future.result)
    fgStage,          \* the coroutine _run_coroutine was called with
    fgArg,            \* its prompt
    fgResult,         \* how the operation ended: none, returned, raised
    fgError,          \* the exception it raised
    fgObs,            \* the observation it returned
    waited,           \* time units spent in future.result so far
    calls,            \* operations called so far
    bridgeOutcome,    \* how the last _run_coroutine ended
    timedOut,         \* the submissions whose waiter timed out
    \* ---- the background loop ----
    tasks,            \* the coroutines submitted, in order of submission
    \* ---- OdysseyClient (odyssey_client.py:34-42) ----
    ws,               \* self.ws: none, open, closed, faulted (connection lost)
    session,          \* self.session: none, open, closed
    current_stream_id,  \* self.current_stream_id (NoStream: None)
    receiving_task,   \* self._receiving_task: none, running, done, cancelled
    receivedAcks,     \* stream ids of the stream_started events handled
    error_callback,   \* self._connection_callbacks has an "error" callback
    errorCalled,      \* the fatal flags that callback was invoked with, in order
    \* ---- OdysseyClient._handle_message, event by event ----
    connection_callbacks,  \* the stream events self._connection_callbacks has a
                           \* callback for
    eventCalled,      \* the callbacks the last _handle_message invoked, in order
    lastEvent,        \* the message it was given
    sidBeforeEvent,   \* self.current_stream_id when it was called
    handled,          \* _handle_message calls so far
    \* ---- OdysseyEnv._action_to_prompt, continuous actions ----
    task_type,        \* self.task_type
    action,           \* the action given last, (dx, dy, dz, gripper) in hundredths
    instruction,      \* the prompt returned for it: phrases and connectives
    translated,       \* _action_to_prompt calls so far
    \* ---- OdysseyEnv's episode state (odyssey_env.py:60, 100-101, 247-249) ----
    episode_length,   \* self.episode_length
    current_step,     \* self.current_step
    terminated,       \* the terminated flag the last step() returned
    stepCall,         \* the last call, when a step: its prompt, whether it went to
                      \* _run_coroutine, the counter and the coroutines before it
    \* ---- the deterministic strategies (strategies.py) ----
    perturbation_categories,  \* the categories argument: name and examples, in order
    selections,               \* select_perturbation calls so far
    selectCall,               \* the last call: arguments, possible results, result
    \* ---- the simulator's end of the connection ----
    inbox,            \* messages sent to the client, not yet received
    sent,             \* messages the client has sent
    acks,             \* stream_started events sent (stream ids are 1, 2, ..)
    simFrames,        \* frames sent
    frameStream       \* for each frame sent, the stream it was made for

frameVars == <<frame_queue, latest_frame, pcFrame, curFrame, onFrameResult,
               pushed, evicted, dropped, dequeued, lastObs>>

judgeVars == <<difficulty, evaluation_history, lastJudgment, evalOutcome, lastReply,
               difficultyBefore, evalCalls, failedCalls, recentJudgments>>

recorderVars == <<categories, fdOps, fdCall, recorded, fdResult>>

detectorVars == <<window_size, min_success_rate, episode_rewards, episode_successes,
                  episode_lengths, failure_counts, fd_conditions, recorderVars>>

callbackVars == <<adaptation_frequency, current_episode_reward, current_episode_length,
                  env_conditions, phase, completed, controllerInvoked,
                  controllerOutcome,
                  lastPerturbation, interactsSinceAdapt, firstInteractSinceAdapt,
                  onStepResult>>

mockFields == <<mock_connected, mock_stream_id, mock_should_stream, mock_task,
                mock_orphans, mock_frame_callbacks, mock_callbacks, mock_lighting,
                mock_gripper_open, mock_frame_count>>

mockVars == <<mockFields, mockStreams, mockOps, mockOp, mockPre, mockCalled>>

envVars == <<env_client, stream_id, loop>>

fgVars == <<fgOp, fgPc, fgStage, fgArg, fgResult, fgError, fgObs, waited, calls,
            bridgeOutcome, timedOut>>

errorVars == <<error_callback, errorCalled>>

clientVars == <<ws, session, current_stream_id, receiving_task, receivedAcks,
                errorVars>>

simVars == <<inbox, sent, acks, simFrames, frameStream>>

stepVars == <<episode_length, current_step, terminated, stepCall>>

bridgeVars == <<envVars, fgVars, tasks, clientVars, simVars, stepVars>>

eventVars == <<connection_callbacks, eventCalled, lastEvent, sidBeforeEvent, handled>>

translatorVars == <<task_type, action, instruction, translated>>

strategyVars == <<perturbation_categories, selections, selectCall>>

vars == <<frameVars, judgeVars, detectorVars, callbackVars, mockVars, bridgeVars,
          eventVars, translatorVars, strategyVars>>

\* what each component's actions leave alone
nonFrameVars == <<judgeVars, detectorVars, callbackVars, mockVars, bridgeVars,
                  eventVars, translatorVars, strategyVars>>
nonJudgeVars == <<frameVars, detectorVars, callbackVars, mockVars, bridgeVars,
                  eventVars, translatorVars, strategyVars>>
nonAdaptVars == <<frameVars, judgeVars, mockVars, bridgeVars, eventVars,
                  translatorVars, strategyVars>>
nonDetectorVars == <<frameVars, judgeVars, callbackVars, mockVars, bridgeVars,
                     eventVars, translatorVars, strategyVars>>
nonMockVars == <<frameVars, judgeVars, detectorVars, callbackVars, bridgeVars,
                 eventVars, translatorVars, strategyVars>>
\* the bridge moves two fields of the frame buffer through _on_frame
nonEnvVars == <<judgeVars, detectorVars, callbackVars, mockVars, eventVars,
                   translatorVars, strategyVars,
                   pcFrame, curFrame, onFrameResult, pushed, evicted, dropped,
                   dequeued, lastObs>>
\* only reset and step touch the episode state
nonBridgeVars == <<nonEnvVars, stepVars>>

(***************************************************************************)
(* queue.Queue, as used on frame_queue.  put_nowait and get_nowait never   *)
(* wait: they either act or raise queue.Full / queue.Empty (ok = FALSE).   *)
(***************************************************************************)
PutNowaitUnbounded(q, f) == [ok |-> TRUE, q |-> Append(q, f)]

PutNowait(q, f) ==
    IF Len(q) < QueueMaxsize
    THEN [ok |-> TRUE, q |-> Append(q, f)]
    ELSE [ok |-> FALSE, q |-> q]

GetNowaitNewest(q) ==
    IF Len(q) > 0
    THEN [ok |-> TRUE, q |-> SubSeq(q, 1, Len(q) - 1), item |-> q[Len(q)]]
    ELSE [ok |-> FALSE, q |-> q, item |-> NoFrame]

GetNowait(q) ==
    IF Len(q) > 0
    THEN [ok |-> TRUE, q |-> Tail(q), item |-> Head(q)]
    ELSE [ok |-> FALSE, q |-> q, item |-> NoFrame]

\* line 132: except queue.Full catches queue.Full only
OuterExceptCatches(exc) == exc = "Full"

\* line 137: the bare except catches every exception
InnerExceptCatches(exc) == TRUE

InitFrames ==
    /\ frame_queue = <<>>
    /\ latest_frame = NoFrame
    /\ pcFrame = "idle"
    /\ curFrame = 0
    /\ onFrameResult = None
    /\ pushed = 0
    /\ evicted = 0
    /\ dropped = 0
    /\ dequeued = 0
    /\ lastObs = 0

(***************************************************************************)
(* OdysseyEnv._on_frame (odyssey_env.py:127-138), run on the background    *)
(* context, one step per statement that touches shared state.              *)
(***************************************************************************)
\* the receive path calls _on_frame(frame) with the next frame
OnFrameCall ==
    /\ pcFrame = "idle"
    /\ pushed < MaxFrames
    /\ pushed' = pushed + 1
    /\ curFrame' = pushed + 1
    /\ pcFrame' = "assign"
    /\ onFrameResult' = None
    /\ UNCHANGED nonFrameVars
    /\ UNCHANGED <<frame_queue, latest_frame, evicted, dropped, dequeued, lastObs>>

\* line 129: self.latest_frame = frame
OnFrameAssign ==
    /\ pcFrame = "assign"
    /\ latest_frame' = curFrame
    /\ pcFrame' = "put"
    /\ UNCHANGED nonFrameVars
    /\ UNCHANGED <<frame_queue, curFrame, onFrameResult, pushed, evicted, dropped,
                   dequeued, lastObs>>

\* lines 130-132: try: put_nowait(frame) except queue.Full
OnFramePut ==
    /\ pcFrame = "put"
    /\ LET r == PutNowait(frame_queue, curFrame) IN
         /\ frame_queue' = r.q
         /\ pcFrame' = IF r.ok \/ ~OuterExceptCatches("Full") THEN "idle" ELSE "evict"
         /\ onFrameResult' = IF r.ok THEN "returned"
                             ELSE IF OuterExceptCatches("Full") THEN onFrameResult
                             ELSE "raised"
    /\ UNCHANGED nonFrameVars
    /\ UNCHANGED <<latest_frame, curFrame, pushed, evicted, dropped, dequeued, lastObs>>

\* lines 134-135: get_nowait(); queue.Empty is swallowed by the bare except
OnFrameEvict ==
    /\ pcFrame = "evict"
    /\ LET r == GetNowait(frame_queue) IN
         /\ frame_queue' = r.q
         /\ pcFrame' = IF r.ok THEN "reput" ELSE "idle"
         /\ evicted' = IF r.ok THEN evicted + 1 ELSE evicted
         /\ dropped' = IF r.ok THEN dropped ELSE dropped + 1
         /\ onFrameResult' = IF r.ok THEN onFrameResult
                             ELSE IF InnerExceptCatches("Empty") THEN "returned"
                             ELSE "raised"
    /\ UNCHANGED nonFrameVars
    /\ UNCHANGED <<latest_frame, curFrame, pushed, dequeued, lastObs>>

\* lines 136-138: put_nowait(frame); queue.Full is swallowed by the bare except
OnFrameReput ==
    /\ pcFrame = "reput"
    /\ LET r == PutNowait(frame_queue, curFrame) IN
         /\ frame_queue' = r.q
         /\ dropped' = IF r.ok THEN dropped ELSE dropped + 1
         /\ onFrameResult' = IF r.ok \/ InnerExceptCatches("Full") THEN "returned"
                             ELSE "raised"
    /\ pcFrame' = "idle"
    /\ UNCHANGED nonFrameVars
    /\ UNCHANGED <<latest_frame, curFrame, pushed, evicted, dequeued, lastObs>>

\* the whole of _on_frame's effect on the queue, when nothing interleaves
OnFrameQueue(q, f) ==
    LET p == PutNowait(q, f) IN
    IF p.ok THEN p.q
    ELSE LET g == GetNowait(q) IN
         IF ~g.ok THEN q
         ELSE PutNowait(g.q, f).q

(***************************************************************************)
(* The foreground consumer: a strict dequeue of frame_queue, and           *)
(* OdysseyEnv._get_observation (odyssey_env.py:265-278), which reads       *)
(* latest_frame only.                                                      *)
(***************************************************************************)
ConsumerDequeue ==
    /\ LET r == GetNowait(frame_queue) IN
         /\ r.ok
         /\ frame_queue' = r.q
         /\ dequeued' = dequeued + 1
    /\ UNCHANGED nonFrameVars
    /\ UNCHANGED <<latest_frame, pcFrame, curFrame, onFrameResult, pushed, evicted,
                   dropped, lastObs>>

\* the frame an observation is made of: 0 stands for the all-zero image
ObservedFrame(latest) == IF latest = NoFrame THEN 0 ELSE latest

\* an observation that takes the oldest queued frame
DequeueOldest(latest, q) ==
    [frame |-> GetNowait(q).item, q |-> GetNowait(q).q]

\* odyssey_env.py:267-278: the observation is made of self.latest_frame; the
\* queue is not read
PeekLatest(latest, q) == [frame |-> ObservedFrame(latest), q |-> q]

GetObservation ==
    /\ LET r == PeekLatest(latest_frame, frame_queue) IN
         /\ lastObs' = r.frame
         /\ frame_queue' = r.q
    /\ UNCHANGED nonFrameVars
    /\ UNCHANGED <<latest_frame, pcFrame, curFrame, onFrameResult,
                   pushed, evicted, dropped, dequeued>>

ProducerStep ==
    \/ OnFrameAssign
    \/ OnFramePut
    \/ OnFrameEvict
    \/ OnFrameReput

NextFrames ==
    \/ OnFrameCall
    \/ ProducerStep
    \/ ConsumerDequeue
    \/ GetObservation

(***************************************************************************)
(* LLMJudge (llm_judge.py).  Difficulty values and deltas are hundredths:  *)
(* 30 is 0.3, 10 is 0.1, 100 is 1.0.                                       *)
(*                                                                         *)
(* A reply of the judgment service is either an API error, or a response   *)
(* whose message content is missing (None) or a text.  A text is a         *)
(* sequence of segments: PROSE, the fences FENCE_JSON (```json) and FENCE  *)
(* (```), and one JSON candidate: GARBAGE (not JSON), LIST (JSON, not an   *)
(* object) or OBJ (a JSON object, whose members the reply's obj gives).    *)
(***************************************************************************)
Absent == "<absent>"

\* a member difficulty_adjustment: a number, a string, null, or absent; json.loads
\* also accepts the literals NaN, Infinity and -Infinity as numbers
Num(v) == [k |-> "num", v |-> v]
NotNum(k) == [k |-> k, v |-> 0]

Obj(obs, fm, why, prompt, adj) ==
    [observation |-> obs, failure_mode |-> fm, reasoning |-> why,
     curriculum_prompt |-> prompt, difficulty_adjustment |-> adj]

FullObj(adj) == Obj("obs", "fm", "why", "prompt", adj)

ApiError == [api |-> "error", hasContent |-> FALSE, text |-> <<>>, obj |-> FullObj(Num(0))]
NoContent == [api |-> "ok", hasContent |-> FALSE, text |-> <<>>, obj |-> FullObj(Num(0))]
Text(t, o) == [api |-> "ok", hasContent |-> TRUE, text |-> t, obj |-> o]

\* the difficulty adjustments the service sends: the fixed domain is
\* [-10, 10]; -30 and 30 lie outside it
Deltas == {-30, -10, -5, 0, 5, 10, 30}

Replies ==
    {ApiError, NoContent}
    \cup {Text(<<"OBJ">>, FullObj(Num(d))) : d \in Deltas}
    \cup {Text(<<"PROSE", "FENCE_JSON", "OBJ", "FENCE">>, FullObj(Num(10))),
          Text(<<"FENCE", "OBJ", "FENCE", "PROSE">>, FullObj(Num(-10))),
          Text(<<"GARBAGE">>, FullObj(Num(10))),
          Text(<<"PROSE", "OBJ">>, FullObj(Num(10))),
          Text(<<"FENCE_JSON", "GARBAGE", "FENCE">>, FullObj(Num(10))),
          Text(<<"LIST">>, FullObj(Num(10))),
          Text(<<"OBJ">>, FullObj(NotNum("str"))),
          Text(<<"OBJ">>, FullObj(NotNum("null"))),
          Text(<<"OBJ">>, FullObj(NotNum("absent"))),
          Text(<<"OBJ">>, FullObj(NotNum("nan"))),
          Text(<<"OBJ">>, FullObj(NotNum("inf"))),
          Text(<<"OBJ">>, FullObj(NotNum("-inf"))),
          Text(<<"OBJ">>, Obj(Absent, Absent, Absent, Absent, Num(5))),
          Text(<<"OBJ">>, Obj("obs", "fm", "why", Absent, Num(-5)))}

IsFence(seg) == seg \in {"FENCE", "FENCE_JSON"}

\* the index of the first segment of t, from position i on, that satisfies
\* the test, or Len(t) + 1
RECURSIVE FirstFence(_, _, _)
FirstFence(t, i, jsonOnly) ==
    IF i > Len(t) THEN Len(t) + 1
    ELSE IF (IF jsonOnly THEN t[i] = "FENCE_JSON" ELSE IsFence(t[i])) THEN i
    ELSE FirstFence(t, i + 1, jsonOnly)

\* lines 160-163: text.split(mark)[1].split("```")[0], the text between the
\* first mark and the next fence (or the end)
Between(t, jsonOnly) ==
    LET a == FirstFence(t, 1, jsonOnly)
        b == FirstFence(t, a + 1, FALSE)
    IN SubSeq(t, a + 1, b - 1)

StripFences(t) ==
    IF \E i \in 1..Len(t) : t[i] = "FENCE_JSON" THEN Between(t, TRUE)
    ELSE IF \E i \in 1..Len(t) : IsFence(t[i]) THEN Between(t, FALSE)
    ELSE t

\* line 165: json.loads(text.strip()); the text must be one JSON value
JsonLoads(t) ==
    IF Len(t) = 1 /\ t[1] \in {"OBJ", "LIST"}
    THEN [ok |-> TRUE, kind |-> t[1]]
    ELSE [ok |-> FALSE, kind |-> "JSONDecodeError"]

\* a get that loses the member
GetDefaultOnly(o, key, default) == default

\* result.get(key, default) on the parsed object
Get(o, key, default) == IF o[key] = Absent THEN default ELSE o[key]

\* a clamp without its upper bound
ClampLowerOnly(x) == Max(10, x)

\* lines 168-170: max(0.1, min(1.0, x))
Clamp(x) == Max(10, Min(100, x))

Judgment(obs, fm, why, prompt, level) ==
    [observation |-> obs, failure_mode |-> fm, reasoning |-> why,
     curriculum_prompt |-> prompt, difficulty_level |-> level]

NoJudgment == Judgment(None, None, None, None, 0)

\* lines 190-197: the fallback judgment of the except path
FallbackJudgment(d, exc) ==
    Judgment("Unable to evaluate - LLM error occurred", "llm_evaluation_error",
             exc, None, d)

\* lines 131-183: the try block.  exc names the exception it raised (None:
\* it returned); difficulty is self.difficulty when it ended.
TryEvaluate(d, r) ==
    LET raise(e) == [exc |-> e, difficulty |-> d, judgment |-> NoJudgment] IN
    IF r.api = "error" THEN raise("APIError")
    ELSE IF ~r.hasContent THEN raise("TypeError")
    ELSE LET parsed == JsonLoads(StripFences(r.text)) IN
         IF ~parsed.ok THEN raise("JSONDecodeError")
         ELSE IF parsed.kind # "OBJ" THEN raise("AttributeError")
         ELSE LET adj == r.obj.difficulty_adjustment IN
              IF adj.k \in {"str", "null"} THEN raise("TypeError")
              ELSE LET delta == IF adj.k = "absent" THEN 0 ELSE adj.v
                       \* min(1.0, nan) is 1.0: min keeps its first argument
                       \* unless the second compares smaller
                       new == CASE adj.k \in {"nan", "inf"} -> Max(10, 100)
                                [] adj.k = "-inf" -> Max(10, Min(100, 0))
                                [] OTHER -> Clamp(d + delta)
                   IN [exc |-> None,
                       difficulty |-> new,
                       judgment |-> Judgment(Get(r.obj, "observation", ""),
                                             Get(r.obj, "failure_mode", None),
                                             Get(r.obj, "reasoning", ""),
                                             Get(r.obj, "curriculum_prompt", None),
                                             new)]

ExceptCatchesJsonOnly(exc) == exc = "JSONDecodeError"

\* line 185: except Exception
ExceptCatches(exc) ==
    exc \in {"APIError", "TypeError", "JSONDecodeError", "AttributeError"}

\* a history that keeps the newest judgment only
HistoryKeepNewest(h, j) == <<j>>

\* line 181: self.evaluation_history.append(judgment)
HistoryAppend(h, j) == Append(h, j)

\* an except path that records the fallback judgment it returns
HistoryWithFallback(h, j) == Append(h, j)

\* lines 185-197: the except path builds and returns the fallback judgment j
\* and has no statement on self.evaluation_history
HistoryAfterFailure(h, j) == h

\* line 213: h[-n:], for n >= 0; h[-0:] is the whole list
LastN(h, n) ==
    IF n = 0 \/ n >= Len(h) THEN h ELSE SubSeq(h, Len(h) - n + 1, Len(h))

InitJudge ==
    /\ difficulty = 30
    /\ evaluation_history = <<>>
    /\ lastJudgment = NoJudgment
    /\ evalOutcome = None
    /\ lastReply = ApiError
    /\ difficultyBefore = 30
    /\ evalCalls = 0
    /\ failedCalls = 0
    /\ recentJudgments = <<>>

\* LLMJudge.evaluate_performance (llm_judge.py:48-197)
EvaluatePerformance ==
    /\ evalCalls < MaxEvals
    /\ evalOutcome # "raised"
    /\ \E r \in Replies :
         LET t == TryEvaluate(difficulty, r) IN
           /\ lastReply' = r
           /\ difficulty' = t.difficulty
           /\ IF t.exc = None
              THEN /\ evaluation_history' = HistoryAppend(evaluation_history, t.judgment)
                   /\ lastJudgment' = t.judgment
                   /\ evalOutcome' = "returned"
                   /\ failedCalls' = failedCalls
              ELSE /\ evaluation_history' =
                          HistoryAfterFailure(evaluation_history,
                                              FallbackJudgment(t.difficulty, t.exc))
                   /\ failedCalls' = failedCalls + 1
                   /\ IF ExceptCatches(t.exc)
                      THEN /\ lastJudgment' = FallbackJudgment(t.difficulty, t.exc)
                           /\ evalOutcome' = "returned"
                      ELSE /\ lastJudgment' = NoJudgment
                           /\ evalOutcome' = "raised"
    /\ difficultyBefore' = difficulty
    /\ evalCalls' = evalCalls + 1
    /\ recentJudgments' = <<>>
    /\ UNCHANGED nonJudgeVars

NextJudge == EvaluatePerformance

\* LLMJudge.get_recent_judgments (llm_judge.py:211-213), n = 5 by default
GetRecentJudgments ==
    /\ \E n \in {1, 5} : recentJudgments' = LastN(evaluation_history, n)
    /\ UNCHANGED <<difficulty, evaluation_history, lastJudgment, evalOutcome,
                   lastReply, difficultyBefore, evalCalls, failedCalls>>
    /\ UNCHANGED nonJudgeVars

NextHistory == EvaluatePerformance \/ GetRecentJudgments

(***************************************************************************)
(* Text.  A Python str is a sequence of one-character strings, so that     *)
(* str.lower() and the substring test "a in b" are computed, not assumed.  *)
(***************************************************************************)
UpperCase == <<"A","B","C","D","E","F","G","H","I","J","K","L","M",
               "N","O","P","Q","R","S","T","U","V","W","X","Y","Z">>
LowerCase == <<"a","b","c","d","e","f","g","h","i","j","k","l","m",
               "n","o","p","q","r","s","t","u","v","w","x","y","z">>

LowerChar(c) ==
    IF \E i \in 1..26 : UpperCase[i] = c
    THEN LowerCase[CHOOSE i \in 1..26 : UpperCase[i] = c]
    ELSE c

\* str.lower()
Lower(str) == [i \in 1..Len(str) |-> LowerChar(str[i])]

\* sub in str
Contains(str, sub) ==
    \E i \in 1..(Len(str) - Len(sub) + 1) : SubSeq(str, i, i + Len(sub) - 1) = sub

S_neutral == <<"n", "e", "u", "t", "r", "a", "l">>
S_lighting == <<"l", "i", "g", "h", "t", "i", "n", "g">>
S_occlusion == <<"o", "c", "c", "l", "u", "s", "i", "o", "n">>
S_visual == <<"v", "i", "s", "u", "a", "l">>
S_distraction == <<"d", "i", "s", "t", "r", "a", "c", "t", "i", "o", "n">>
S_dim == <<"d", "i", "m", " ", "t", "h", "e", " ", "l", "i", "g", "h", "t", "s">>
S_harsh == <<"H", "a", "r", "s", "h", " ", "o", "v", "e", "r", "h", "e", "a", "d", " ", "L", "I", "G", "H", "T", "I", "N", "G">>
S_clutter == <<"a", "d", "d", " ", "o", "c", "c", "l", "u", "s", "i", "o", "n", " ", "a", "n", "d", " ", "v", "i", "s", "u", "a", "l", " ", "c", "l", "u", "t", "t", "e", "r">>
S_forward == <<"m", "o", "v", "e", " ", "f", "o", "r", "w", "a", "r", "d">>
S_left == <<"t", "u", "r", "n", " ", "l", "e", "f", "t">>
\* an attribute that is not set, and a call that returned nothing
NoAttr == <<"<unset>">>

(***************************************************************************)
(* FailureDetector (failure_detector.py).  Rewards are whole numbers;      *)
(* min_success_rate is in percent.                                         *)
(***************************************************************************)
\* line 19: min_success_rate: float = 0.3, in percent
DefaultMinSuccessRate == 30

\* line 32: the default categories, in declaration order
Categories == <<S_lighting, S_occlusion, S_visual, S_distraction>>

\* a full window that refuses the new element
DequeAppendKeepOldest(q, x, maxlen) ==
    IF Len(q) >= maxlen THEN q ELSE Append(q, x)

\* deque(maxlen=n).append(x): the oldest element leaves a full deque
DequeAppend(q, x, maxlen) ==
    IF maxlen = 0 THEN <<>>
    ELSE IF Len(q) >= maxlen THEN Append(Tail(q), x)
    ELSE Append(q, x)

RECURSIVE SumSeq(_)
SumSeq(q) == IF q = <<>> THEN 0 ELSE Head(q) + SumSeq(Tail(q))

CountTrue(q) == Cardinality({i \in 1..Len(q) : q[i]})

\* tallies that describe the latest episode only
RecordFailureLatest(counts, success, conditions) ==
    [i \in 1..Len(categories) |->
        IF ~success /\ conditions # <<>> /\ Contains(Lower(conditions), categories[i])
        THEN 1 ELSE 0]

\* lines 66-71: the tallies after an episode
RecordFailure(counts, success, conditions) ==
    IF ~success /\ conditions # <<>>
    THEN [i \in 1..Len(categories) |->
            IF Contains(Lower(conditions), categories[i])
            THEN counts[i] + 1 ELSE counts[i]]
    ELSE counts

\* lines 73-77: get_success_rate() as the fraction num / den; 0.0 for an
\* empty window
GetSuccessRate(successes) ==
    IF successes = <<>> THEN [num |-> 0, den |-> 1]
    ELSE [num |-> CountTrue(successes), den |-> Len(successes)]

\* lines 73-77 and 85-91: should_adapt(), with get_success_rate() < min rate
\* as successes * 100 < min_success_rate * recorded
ShouldAdapt(successes, wsize, minrate) ==
    IF Len(successes) < wsize \div 2 THEN FALSE
    ELSE IF successes = <<>> THEN 0 < minrate
    ELSE CountTrue(successes) * 100 < minrate * Len(successes)

\* the categories whose tally is at least the mean tally
FailureModesFromMean(counts) ==
    {i \in 1..Len(categories) : counts[i] * Len(categories) >= SumSeq(counts)}

\* lines 93-103: get_failure_modes(): tallies above the mean tally
FailureModes(counts) ==
    {i \in 1..Len(categories) : counts[i] * Len(categories) > SumSeq(counts)}

\* the names of the categories of idx from position i on, in the order of
\* self.failure_counts, which is the order of self.categories
RECURSIVE NamesFrom(_, _)
NamesFrom(i, idx) ==
    IF i > Len(categories) THEN <<>>
    ELSE (IF i \in idx THEN <<categories[i]>> ELSE <<>>) \o NamesFrom(i + 1, idx)

\* the last of the categories with the highest tally
LastMax(counts) ==
    CHOOSE i \in 1..Len(counts) :
        /\ \A j \in 1..Len(counts) : counts[j] <= counts[i]
        /\ \A j \in i + 1..Len(counts) : counts[j] < counts[i]

\* line 110: max(self.failure_counts.items(), key=lambda x: x[1]): max keeps
\* the first of the items with the highest tally
FirstMax(counts) ==
    CHOOSE i \in 1..Len(counts) :
        /\ \A j \in 1..Len(counts) : counts[j] <= counts[i]
        /\ \A j \in 1..i - 1 : counts[j] < counts[i]

\* a categories argument with a capitalised name
S_Lighting == <<"L", "i", "g", "h", "t", "i", "n", "g">>
CustomCategories == <<S_Lighting, S_occlusion>>

\* a categories argument whose names both occur in one label
PairCategories == <<S_occlusion, S_visual>>

NoCall == [op |-> "none", success |-> TRUE, conditions |-> <<>>, counts |-> <<>>]

NoResult == [op |-> "none", modes |-> <<>>, weakest |-> <<>>]

\* __init__ (lines 30-41), for a window_size of the set W and a categories
\* argument of the set C
InitDetectorIn(W, C) ==
    /\ window_size \in W
    /\ min_success_rate = DefaultMinSuccessRate
    /\ categories \in C
    /\ episode_rewards = <<>>
    /\ episode_successes = <<>>
    /\ episode_lengths = <<>>
    /\ failure_counts = [i \in 1..Len(categories) |-> 0]
    /\ fd_conditions = S_neutral
    /\ fdOps = 0
    /\ fdCall = NoCall
    /\ recorded = <<>>
    /\ fdResult = NoResult

\* the same with the default categories
InitDetector(W) == InitDetectorIn(W, {Categories})

\* the condition labels record_episode is called with (<<>>: None)
Labels == {<<>>, S_neutral, S_harsh, S_clutter}

\* FailureDetector.record_episode (lines 43-71); episode k is recorded with
\* reward k and length k
RecordEpisode ==
    /\ fdOps < MaxFdOps
    /\ fdOps' = fdOps + 1
    /\ \E success \in BOOLEAN, conditions \in Labels :
         LET reward == fdOps + 1
             length == fdOps + 1
         IN /\ episode_rewards' = DequeAppend(episode_rewards, reward, window_size)
            /\ episode_successes' = DequeAppend(episode_successes, success, window_size)
            /\ episode_lengths' = DequeAppend(episode_lengths, length, window_size)
            /\ fd_conditions' = IF conditions # <<>> THEN conditions ELSE fd_conditions
            /\ failure_counts' = RecordFailure(failure_counts, success, conditions)
            /\ fdCall' = [op |-> "record", success |-> success,
                          conditions |-> conditions, counts |-> failure_counts]
            /\ recorded' = Append(recorded, [reward |-> reward, success |-> success,
                                             length |-> length])
    /\ fdResult' = NoResult
    /\ UNCHANGED <<window_size, min_success_rate, categories>>
    /\ UNCHANGED nonDetectorVars

\* FailureDetector.reset_statistics (lines 112-117)
ResetStatistics ==
    /\ fdOps < MaxFdOps
    /\ fdOps' = fdOps + 1
    /\ episode_rewards' = <<>>
    /\ episode_successes' = <<>>
    /\ episode_lengths' = <<>>
    /\ failure_counts' = [i \in 1..Len(categories) |-> 0]
    /\ fdCall' = [op |-> "reset", success |-> TRUE, conditions |-> <<>>,
                  counts |-> failure_counts]
    /\ recorded' = <<>>
    /\ fdResult' = NoResult
    /\ UNCHANGED <<window_size, min_success_rate, categories, fd_conditions>>
    /\ UNCHANGED nonDetectorVars

\* what the queries leave alone
notQuery == <<window_size, min_success_rate, episode_rewards, episode_successes,
              episode_lengths, failure_counts, fd_conditions, categories, fdOps,
              fdCall, recorded>>

\* FailureDetector.get_failure_modes (lines 93-103)
GetFailureModes ==
    /\ fdResult' = [op |-> "get_failure_modes",
                    modes |-> NamesFrom(1, FailureModes(failure_counts)),
                    weakest |-> <<>>]
    /\ UNCHANGED notQuery
    /\ UNCHANGED nonDetectorVars

\* FailureDetector.get_weakest_category (lines 105-110)
GetWeakestCategory ==
    /\ fdResult' = [op |-> "get_weakest_category", modes |-> <<>>,
                    weakest |-> categories[FirstMax(failure_counts)]]
    /\ UNCHANGED notQuery
    /\ UNCHANGED nonDetectorVars

NextDetector ==
    \/ RecordEpisode
    \/ ResetStatistics
    \/ GetFailureModes
    \/ GetWeakestCategory

(***************************************************************************)
(* The training loop: env.step, then CurriculumCallback._on_step           *)
(* (train.py:47-108).                                                      *)
(***************************************************************************)
\* the instructions env.step sends for the loop's actions ("": none)
StepPrompts == {S_forward, S_left, <<>>}
\* self.locals["rewards"][0]
StepRewards == {-1, 1}
\* CurriculumController.generate_perturbation: the text the service
\* returned, or Raises when the call failed (controller.py:91-97)
Raises == <<"<raises>">>
ControllerReplies == {S_dim, S_harsh, S_clutter, Raises}

\* __init__ (train.py:37-45), for an adaptation_frequency of the set F
InitCallback(F) ==
    /\ adaptation_frequency \in F
    /\ current_episode_reward = 0
    /\ current_episode_length = 0
    /\ env_conditions = NoAttr
    /\ phase = "env"
    /\ completed = 0
    /\ controllerInvoked = FALSE
    /\ controllerOutcome = "none"
    /\ lastPerturbation = NoAttr
    /\ interactsSinceAdapt = 0
    /\ firstInteractSinceAdapt = NoAttr
    /\ onStepResult = None

\* getattr(self.env, "current_conditions", "neutral")
EnvConditions(c) == IF c = NoAttr THEN S_neutral ELSE c

\* env.step(action) of the training loop, as far as the callback's claims
\* go: the interact call it makes (odyssey_env.py:228-236)
EnvStep ==
    /\ phase = "env"
    /\ completed < MaxEpisodes
    /\ phase' = "callback"
    /\ \E prompt \in StepPrompts :
         IF prompt # <<>> /\ interactsSinceAdapt = 0 /\ lastPerturbation # NoAttr
         THEN /\ interactsSinceAdapt' = 1
              /\ firstInteractSinceAdapt' = prompt
         ELSE UNCHANGED <<interactsSinceAdapt, firstInteractSinceAdapt>>
    /\ UNCHANGED <<adaptation_frequency, current_episode_reward, current_episode_length,
                   env_conditions, completed, controllerInvoked, controllerOutcome,
                   lastPerturbation, onStepResult>>
    /\ UNCHANGED detectorVars
    /\ UNCHANGED nonAdaptVars

\* an adaptation that stores whatever the call gave
StoreAnyReply(reply, conditions) == reply

\* _adapt_curriculum (train.py:94-108): env.current_conditions after the
\* try; a controller that raises leaves it as it was
StoreReply(reply, conditions) == IF reply # Raises THEN reply ELSE conditions

\* line 73: len(self.failure_detector.episode_successes) % frequency == 0
AdaptDue(successes, n, freq) == Len(successes) % freq = 0

\* CurriculumCallback._on_step (train.py:47-81) with _adapt_curriculum
\* (train.py:83-108) and FailureDetector.record_episode (lines 43-71)
OnStep ==
    /\ phase = "callback"
    /\ phase' = "env"
    /\ onStepResult' = TRUE
    /\ \E rew \in StepRewards, done \in BOOLEAN, reply \in ControllerReplies :
         LET reward == current_episode_reward + rew
             length == current_episode_length + 1
             success == reward > 0
             conditions == EnvConditions(env_conditions)
             successes == DequeAppend(episode_successes, success, window_size)
             adapt == /\ AdaptDue(successes, completed + 1, adaptation_frequency)
                      /\ ShouldAdapt(successes, window_size, min_success_rate)
         IN
           /\ (length >= MaxEpisodeLen => done)
           /\ IF done
              THEN /\ episode_rewards' = DequeAppend(episode_rewards, reward, window_size)
                   /\ episode_successes' = successes
                   /\ episode_lengths' = DequeAppend(episode_lengths, length, window_size)
                   /\ fd_conditions' = IF conditions # <<>> THEN conditions
                                       ELSE fd_conditions
                   /\ failure_counts' = RecordFailure(failure_counts, success, conditions)
                   /\ completed' = completed + 1
                   /\ controllerInvoked' = adapt
                   /\ controllerOutcome' = IF ~adapt THEN "none"
                                           ELSE IF reply = Raises THEN "raised"
                                           ELSE "returned"
                   /\ env_conditions' = IF adapt THEN StoreReply(reply, env_conditions)
                                                 ELSE env_conditions
                   /\ IF adapt /\ reply # Raises
                      THEN /\ lastPerturbation' = reply
                           /\ interactsSinceAdapt' = 0
                           /\ firstInteractSinceAdapt' = NoAttr
                      ELSE UNCHANGED <<lastPerturbation, interactsSinceAdapt,
                                       firstInteractSinceAdapt>>
                   /\ current_episode_reward' = 0
                   /\ current_episode_length' = 0
              ELSE /\ current_episode_reward' = reward
                   /\ current_episode_length' = length
                   /\ controllerInvoked' = FALSE
                   /\ controllerOutcome' = "none"
                   /\ UNCHANGED detectorVars
                   /\ UNCHANGED <<env_conditions, completed, lastPerturbation,
                                  interactsSinceAdapt, firstInteractSinceAdapt>>
    /\ UNCHANGED <<window_size, min_success_rate, adaptation_frequency>>
    /\ UNCHANGED recorderVars
    /\ UNCHANGED nonAdaptVars

NextAdapt ==
    \/ EnvStep
    \/ OnStep

(***************************************************************************)
(* MockOdysseyClient (odyssey_mock.py).  Every operation runs to its end   *)
(* on the event loop without another operation in between.  The arm and    *)
(* object coordinates (lines 38-41, 226-259), which nothing but the        *)
(* rendered picture depends on, are left out.                              *)
(***************************************************************************)
S_close == <<"c", "l", "o", "s", "e", " ", "g", "r", "i", "p", "p", "e", "r">>
S_open == <<"o", "p", "e", "n", " ", "t", "h", "e", " ", "g", "r", "i", "p", "p", "e", "r">>

MockPrompts == {S_dim, S_harsh, S_close, S_open, S_left}

\* the events a caller may register a callback for
CallbackEvents == {"connected", "stream_started", "stream_ended"}

MockState ==
    [connected |-> mock_connected, stream_id |-> mock_stream_id,
     should_stream |-> mock_should_stream, task |-> mock_task,
     orphans |-> mock_orphans, frame_callbacks |-> mock_frame_callbacks,
     callbacks |-> mock_callbacks, lighting |-> mock_lighting,
     gripper_open |-> mock_gripper_open, frame_count |-> mock_frame_count]

InitMock ==
    /\ mock_connected = FALSE
    /\ mock_stream_id = NoStream
    /\ mock_should_stream = FALSE
    /\ mock_task = "none"
    /\ mock_orphans = 0
    /\ mock_frame_callbacks = 0
    /\ mock_callbacks = {}
    /\ mock_lighting = "neutral"
    /\ mock_gripper_open = TRUE
    /\ mock_frame_count = 0
    /\ mockStreams = 0
    /\ mockOps = 0
    /\ mockOp = None
    /\ mockPre = [connected |-> FALSE, stream_id |-> NoStream,
                  should_stream |-> FALSE, task |-> "none", orphans |-> 0,
                  frame_callbacks |-> 0, callbacks |-> {}, lighting |-> "neutral",
                  gripper_open |-> TRUE, frame_count |-> 0]
    /\ mockCalled = <<>>

MockCall(op) ==
    /\ mockOps < MaxMockOps
    /\ mockOps' = mockOps + 1
    /\ mockOp' = op
    /\ mockPre' = MockState

\* the callback registered for event, if there is one (self._connection_
\* callbacks.get(event) is None otherwise)
Invoke(registered, event) == IF event \in registered THEN <<event>> ELSE <<>>

\* connect (lines 46-72)
MockConnect ==
    /\ MockCall("connect")
    /\ \E cbs \in SUBSET CallbackEvents, onFrame \in BOOLEAN :
         /\ mock_connected' = TRUE
         /\ mock_frame_callbacks' = mock_frame_callbacks + (IF onFrame THEN 1 ELSE 0)
         /\ mock_callbacks' = cbs
         /\ mockCalled' = Invoke(cbs, "connected")
    /\ UNCHANGED <<mock_stream_id, mock_should_stream, mock_task, mock_orphans,
                   mock_lighting, mock_gripper_open, mock_frame_count, mockStreams>>
    /\ UNCHANGED nonMockVars

\* _parse_prompt (lines 96-108) and interact (lines 264-270): the lighting
\* a prompt asks for, or the given one
ParseLighting(prompt, else) ==
    LET p == Lower(prompt) IN
    IF Contains(p, <<"d", "i", "m">>) \/ Contains(p, <<"d", "a", "r", "k">>) THEN "dim"
    ELSE IF Contains(p, <<"h", "a", "r", "s", "h">>) \/ Contains(p, <<"b", "r", "i", "g", "h", "t">>) THEN "harsh"
    ELSE IF Contains(p, <<"d", "r", "a", "m", "a", "t", "i", "c">>) THEN "dramatic"
    ELSE else

\* start_stream (lines 74-94)
MockStartStream ==
    /\ MockCall("start_stream")
    /\ \E prompt \in MockPrompts :
         mock_lighting' = ParseLighting(prompt, "neutral")
    /\ mockStreams' = mockStreams + 1
    /\ mock_stream_id' = mockStreams + 1
    /\ mock_should_stream' = TRUE
    /\ mock_gripper_open' = TRUE
    /\ mock_task' = "running"
    /\ mock_orphans' = mock_orphans + (IF mock_task = "running" THEN 1 ELSE 0)
    /\ mockCalled' = Invoke(mock_callbacks, "stream_started")
    /\ UNCHANGED <<mock_connected, mock_frame_callbacks, mock_callbacks,
                   mock_frame_count>>
    /\ UNCHANGED nonMockVars

\* one round of a _generate_frames task (lines 122-143): a frame to every
\* frame callback; a task that finds _should_stream false ends
MockGenerateFrame ==
    /\ mock_task = "running" \/ mock_orphans > 0
    /\ IF mock_should_stream
       THEN /\ mock_frame_count < MaxMockFrames
            /\ mock_frame_count' = mock_frame_count + 1
            /\ UNCHANGED <<mock_task, mock_orphans>>
       ELSE /\ mock_orphans > 0
            /\ mock_orphans' = mock_orphans - 1
            /\ UNCHANGED <<mock_task, mock_frame_count>>
    /\ UNCHANGED <<mock_connected, mock_stream_id, mock_should_stream,
                   mock_frame_callbacks, mock_callbacks, mock_lighting,
                   mock_gripper_open, mockStreams, mockOps, mockOp, mockPre,
                   mockCalled>>
    /\ UNCHANGED nonMockVars

\* interact (lines 221-270)
MockInteract ==
    /\ MockCall("interact")
    /\ \E prompt \in MockPrompts :
         LET p == Lower(prompt) IN
           /\ mock_gripper_open' =
                IF Contains(p, <<"c", "l", "o", "s", "e">>) \/ Contains(p, <<"g", "r", "a", "s", "p">>) THEN FALSE
                ELSE IF Contains(p, <<"o", "p", "e", "n">>) \/ Contains(p, <<"r", "e", "l", "e", "a", "s", "e">>) THEN TRUE
                ELSE mock_gripper_open
           /\ mock_lighting' = ParseLighting(prompt, mock_lighting)
    /\ mockCalled' = <<>>
    /\ UNCHANGED <<mock_connected, mock_stream_id, mock_should_stream, mock_task,
                   mock_orphans, mock_frame_callbacks, mock_callbacks,
                   mock_frame_count, mockStreams>>
    /\ UNCHANGED nonMockVars

\* the body of end_stream (lines 272-286); disconnect runs it too
MockEndStreamBody(connected) ==
    /\ mock_should_stream' = FALSE
    /\ mock_task' = IF mock_task = "none" THEN "none" ELSE "cancelled"
    /\ mockCalled' = Invoke(mock_callbacks, "stream_ended")
    /\ mock_stream_id' = NoStream
    /\ mock_connected' = connected

\* end_stream (lines 272-286)
MockEndStream ==
    /\ MockCall("end_stream")
    /\ MockEndStreamBody(mock_connected)
    /\ UNCHANGED <<mock_orphans, mock_frame_callbacks, mock_callbacks, mock_lighting,
                   mock_gripper_open, mock_frame_count, mockStreams>>
    /\ UNCHANGED nonMockVars

\* disconnect (lines 288-291)
MockDisconnect ==
    /\ MockCall("disconnect")
    /\ MockEndStreamBody(FALSE)
    /\ UNCHANGED <<mock_orphans, mock_frame_callbacks, mock_callbacks, mock_lighting,
                   mock_gripper_open, mock_frame_count, mockStreams>>
    /\ UNCHANGED nonMockVars

NextMock ==
    \/ MockConnect
    \/ MockStartStream
    \/ MockGenerateFrame
    \/ MockInteract
    \/ MockEndStream
    \/ MockDisconnect

(***************************************************************************)
(* The bridge: OdysseyEnv's foreground operations over _run_coroutine      *)
(* (odyssey_env.py:115-125, 140-263, 353-369), the background loop that    *)
(* runs OdysseyClient's coroutines (odyssey_client.py:44-234), and the     *)
(* simulator at the other end of the connection.  A coroutine runs without *)
(* interleaving from one await to the next.  An await on the network       *)
(* (websockets.connect, ws.send, ws.close, session.close) completes after  *)
(* an arbitrary time; time is counted in seconds while the foreground      *)
(* waits in future.result.                                                 *)
(***************************************************************************)
\* calls made on an environment after the close() that stopped its loop
MaxCallsAfterClose == 1

\* odyssey_client.py:186  "stream_" + str(id(self)), the identifier start_stream
\* makes up when current_stream_id is still None; no simulator id equals it
FabricatedId == 99

\* the instructions step() sends (odyssey_env.py:288-296)
BridgePrompts == {S_forward}
NoPrompt == <<>>

\* the awaits that wait for the network
NetworkAwaits == {"ws_connect", "send", "ws_close", "session_close"}

\* the image_size argument of OdysseyEnv, (height, width)
image_size == <<2, 3>>

\* odyssey_env.py:73  the shape of observation_space
ObservationShape == <<image_size[1], image_size[2], 3>>

\* no observation: the operation returned none
NoObs == [frame |-> NoFrame, shape |-> <<>>]

\* an observation laid out (width, height, 3)
ObservationTransposed(latest) ==
    [frame |-> ObservedFrame(latest), shape |-> <<image_size[2], image_size[1], 3>>]

\* _get_observation (odyssey_env.py:265-278): np.zeros((height, width, 3)) when
\* there is no frame, else the frame resized to width x height, an array of
\* shape (height, width, 3)
Observation(latest) ==
    [frame |-> ObservedFrame(latest), shape |-> <<image_size[1], image_size[2], 3>>]

\* a coroutine object handed to run_coroutine_threadsafe
NewTask(kind, arg) ==
    [kind |-> kind, pc |-> "start", arg |-> arg, sid |-> NoStream,
     state |-> "pending", value |-> NoStream, error |-> None,
     sidAtCall |-> NoStream, clientAtCall |-> FALSE]

InitBridgeIn(client, lp) ==
    /\ env_client = client
    /\ stream_id = NoStream
    /\ loop = lp
    /\ fgOp = "none"
    /\ fgPc = "idle"
    /\ fgStage = "none"
    /\ fgArg = NoPrompt
    /\ fgResult = "none"
    /\ fgError = None
    /\ fgObs = NoObs
    /\ waited = 0
    /\ calls = 0
    /\ bridgeOutcome = "none"
    /\ timedOut = {}
    /\ tasks = <<>>
    /\ ws = "none"
    /\ session = "none"
    /\ current_stream_id = NoStream
    /\ receiving_task = "none"
    /\ receivedAcks = {}
    /\ error_callback = FALSE
    /\ errorCalled = <<>>
    /\ inbox = <<>>
    /\ sent = <<>>
    /\ acks = 0
    /\ simFrames = 0
    /\ frameStream = <<>>

\* OdysseyEnv.__init__ (odyssey_env.py:92-107): no client, no loop
InitBridge == InitBridgeIn(FALSE, "none")

NoStep == [prompt |-> NoPrompt, submitted |-> FALSE, stepBefore |-> 0,
           tasksBefore |-> 0]

\* OdysseyEnv.__init__ (odyssey_env.py:60, 100), for an episode_length of the
\* set L
InitEpisodeIn(L) ==
    /\ episode_length \in L
    /\ current_step = 0
    /\ terminated = FALSE
    /\ stepCall = NoStep

InitEpisode == InitEpisodeIn({MaxEpisodeLen})

\* a step that hands every prompt, the empty one too, to the bridge
SendsAlways(prompt) == TRUE

\* odyssey_env.py:229  if prompt:
SendsInteraction(prompt) == prompt # NoPrompt

\* odyssey_env.py:248  terminated = self.current_step >= self.episode_length
Terminated(step, length) == step >= length

\* odyssey_env.py:247-249: the end of a step, when finishes holds
StepCounters(finishes) ==
    /\ current_step' = IF finishes THEN current_step + 1 ELSE current_step
    /\ terminated' = IF finishes THEN Terminated(current_step + 1, episode_length)
                                 ELSE terminated
    /\ UNCHANGED <<episode_length, stepCall>>

\* what the foreground thread never touches
notFg == <<env_client, clientVars, simVars, frame_queue, latest_frame, nonEnvVars>>

(***************************************************************************)
(* OdysseyEnv._run_coroutine (odyssey_env.py:115-125).  With self.loop     *)
(* still None it starts the loop thread and sleeps 0.5 s; nothing orders   *)
(* the thread's assignment of self.loop before the end of that sleep.      *)
(***************************************************************************)
\* odyssey_env.py:124  asyncio.run_coroutine_threadsafe(coro, self.loop)
Submit(kind, arg) ==
    /\ loop' = loop
    /\ tasks' = Append(tasks, NewTask(kind, arg))
    /\ fgPc' = "waiting"
    /\ waited' = 0

\* a _run_coroutine that starts a loop thread again when the loop has stopped
RunCoroutineRestarting(kind, arg) ==
    /\ fgStage' = kind
    /\ fgArg' = arg
    /\ fgResult' = "none"
    /\ fgError' = None
    /\ fgObs' = NoObs
    /\ IF loop \in {"none", "starting", "stopped"}
         THEN /\ loop' = "starting"
              /\ tasks' = tasks
              /\ fgPc' = "spawning"
              /\ waited' = 0
         ELSE Submit(kind, arg)

RunCoroutine(kind, arg) ==
    /\ fgStage' = kind
    /\ fgArg' = arg
    /\ fgResult' = "none"
    /\ fgError' = None
    /\ fgObs' = NoObs
    /\ IF loop \in {"none", "starting"}
         THEN /\ loop' = "starting"
              /\ tasks' = tasks
              /\ fgPc' = "spawning"
              /\ waited' = 0
         ELSE Submit(kind, arg)

\* a timeout that expires early
TimedOutShort(w) == w >= 3

\* odyssey_env.py:125  future.result(timeout=30) gives up
TimedOut(w) == w >= RunCoroutineTimeout

\* the operation ends, by return or by an exception
ReturnWith(result, err, obs) ==
    /\ fgPc' = "idle"
    /\ fgStage' = "none"
    /\ fgArg' = NoPrompt
    /\ fgResult' = result
    /\ fgError' = err
    /\ fgObs' = obs
    /\ tasks' = tasks
    /\ waited' = 0

Return(result, err) == ReturnWith(result, err, NoObs)

\* reset and step end with obs = self._get_observation()
\* (odyssey_env.py:205, 245)
ReturnObservation == ReturnWith("returned", None, Observation(latest_frame))

\* reset, odyssey_env.py:192-198: the stream id is stored and the wait for a
\* first frame begins
FrameWaitBegin(val) ==
    /\ stream_id' = val
    /\ loop' = loop
    /\ fgPc' = "frame_wait"
    /\ fgStage' = "none"
    /\ fgArg' = NoPrompt
    /\ waited' = 0
    /\ tasks' = tasks
    /\ UNCHANGED <<fgResult, fgError, fgObs>>

\* reset, odyssey_env.py:181-192
ResetStartStream ==
    /\ RunCoroutine("start_stream", NoPrompt)
    /\ stream_id' = stream_id

\* reset, odyssey_env.py:171-179
ResetEndPrevious ==
    IF stream_id # NoStream
        THEN RunCoroutine("end_stream", NoPrompt) /\ stream_id' = stream_id
        ELSE ResetStartStream

\* close, odyssey_env.py:366-369
CloseStopLoop ==
    /\ Return("returned", None)
    /\ loop' = IF loop = "running" THEN "stopped" ELSE loop
    /\ stream_id' = stream_id

\* the code that follows a _run_coroutine call, given how the call ended
After(ok, val, err) ==
    CASE fgOp = "reset" /\ fgStage = "connect" ->
            \* _connect lets the exception through (odyssey_env.py:149); the
            \* wait on _connected that follows changes nothing
            IF ok THEN ResetEndPrevious
                  ELSE Return("raised", err) /\ UNCHANGED <<loop, stream_id>>
      [] fgOp = "reset" /\ fgStage = "end_stream" ->
            \* try / bare except (odyssey_env.py:176-179)
            ResetStartStream
      [] fgOp = "reset" /\ fgStage = "start_stream" ->
            IF ok THEN FrameWaitBegin(val)
                  ELSE Return("raised", err) /\ UNCHANGED <<loop, stream_id>>
      [] fgOp = "step" ->
            \* try / except Exception (odyssey_env.py:235-238), then the
            \* observation
            ReturnObservation /\ UNCHANGED <<loop, stream_id>>
      [] fgOp = "close" ->
            \* try / bare except (odyssey_env.py:361-364)
            CloseStopLoop

\* the calls still to make: MaxCalls of them
CallsLeft == calls < MaxCalls

\* and MaxCallsAfterClose more on an environment whose loop close() stopped
CallsLeftAfterClose ==
    \/ CallsLeft
    \/ loop = "stopped" /\ calls < MaxCalls + MaxCallsAfterClose

\* reset (odyssey_env.py:153-208), when the call is one of those to make
CallResetWhen(allowed) ==
    /\ fgPc = "idle"
    /\ allowed
    /\ calls' = calls + 1
    /\ fgOp' = "reset"
    /\ IF ~env_client
         THEN RunCoroutine("connect", NoPrompt) /\ stream_id' = stream_id
         ELSE ResetEndPrevious
    /\ stepCall' = NoStep
    /\ UNCHANGED <<episode_length, current_step, terminated>>
    /\ UNCHANGED <<bridgeOutcome, timedOut>>
    /\ UNCHANGED notFg

CallReset == CallResetWhen(CallsLeft)

\* step (odyssey_env.py:226-263) with a prompt of the set P
CallStepWhen(allowed, P) ==
    /\ fgPc = "idle"
    /\ allowed
    /\ calls' = calls + 1
    /\ fgOp' = "step"
    /\ \E p \in P :
         /\ stepCall' = [prompt |-> p, submitted |-> SendsInteraction(p),
                         stepBefore |-> current_step, tasksBefore |-> Len(tasks)]
         /\ IF SendsInteraction(p)
              THEN /\ RunCoroutine("interact", p)
                   /\ UNCHANGED <<current_step, terminated, bridgeOutcome>>
              ELSE /\ ReturnObservation
                   /\ loop' = loop
                   /\ bridgeOutcome' = "none"
                   /\ current_step' = current_step + 1
                   /\ terminated' = Terminated(current_step + 1, episode_length)
    /\ UNCHANGED <<stream_id, timedOut, episode_length>>
    /\ UNCHANGED notFg

CallStep == CallStepWhen(CallsLeft, BridgePrompts)

\* step with any action, one that translates to the empty prompt included
CallStepAny == CallStepWhen(CallsLeft, BridgePrompts \cup {NoPrompt})

\* close (odyssey_env.py:353-369)
CallCloseWhen(allowed) ==
    /\ fgPc = "idle"
    /\ allowed
    /\ calls' = calls + 1
    /\ fgOp' = "close"
    /\ IF env_client
         THEN RunCoroutine("cleanup", NoPrompt) /\ stream_id' = stream_id
         ELSE CloseStopLoop
    /\ stepCall' = NoStep
    /\ UNCHANGED <<episode_length, current_step, terminated>>
    /\ UNCHANGED <<bridgeOutcome, timedOut>>
    /\ UNCHANGED notFg

CallClose == CallCloseWhen(CallsLeft)

\* _start_event_loop (odyssey_env.py:109-113), in the loop thread
LoopThreadStart ==
    /\ loop = "starting"
    /\ loop' = "running"
    /\ UNCHANGED <<env_client, stream_id, fgVars, tasks, clientVars, simVars>>
    /\ UNCHANGED <<frame_queue, latest_frame, nonBridgeVars>>

\* the end of time.sleep(0.5) (odyssey_env.py:122-124)
SpawnDone ==
    /\ fgPc = "spawning"
    /\ IF loop = "starting"
         THEN /\ bridgeOutcome' = "AttributeError"
              /\ After(FALSE, NoStream, "AttributeError")
              /\ StepCounters(fgOp = "step")
         ELSE /\ bridgeOutcome' = bridgeOutcome
              /\ Submit(fgStage, fgArg)
              /\ UNCHANGED <<stream_id, fgStage, fgArg, fgResult, fgError, fgObs>>
              /\ UNCHANGED stepVars
    /\ UNCHANGED <<fgOp, calls, timedOut>>
    /\ UNCHANGED notFg

\* the coroutine the foreground is waiting for
Awaited == tasks[Len(tasks)]

\* the running loop has something it can do at once: a coroutine that is not
\* waiting for the network, or a message for the receive loop
LoopReady ==
    /\ loop = "running"
    /\ \/ \E i \in 1..Len(tasks) :
             tasks[i].state = "pending" /\ tasks[i].pc \notin NetworkAwaits
       \/ receiving_task = "running" /\ ws = "open" /\ inbox # <<>>
       \/ receiving_task = "running" /\ ws = "faulted"

\* a second passes while future.result waits; what the loop can do at once
\* takes less
Tick ==
    /\ fgPc = "waiting"
    /\ waited < RunCoroutineTimeout
    /\ Awaited.state = "pending"
    /\ ~LoopReady
    /\ waited' = waited + 1
    /\ UNCHANGED <<fgOp, fgPc, fgStage, fgArg, fgResult, fgError, fgObs, calls,
                   bridgeOutcome, timedOut>>
    /\ UNCHANGED <<envVars, tasks>>
    /\ UNCHANGED <<clientVars, simVars, frame_queue, latest_frame, nonBridgeVars>>

\* odyssey_env.py:197  time.time() < timeout no longer holds
FirstFrameWaitOver(w) == w >= FirstFrameTimeout

\* a second of reset's wait loop (odyssey_env.py:197-198) with no frame yet
FrameWaitTick ==
    /\ fgPc = "frame_wait"
    /\ latest_frame = NoFrame
    /\ ~FirstFrameWaitOver(waited)
    /\ ~LoopReady
    /\ waited' = waited + 1
    /\ UNCHANGED <<fgOp, fgPc, fgStage, fgArg, fgResult, fgError, fgObs, calls,
                   bridgeOutcome, timedOut>>
    /\ UNCHANGED <<envVars, tasks>>
    /\ UNCHANGED <<clientVars, simVars, frame_queue, latest_frame, nonBridgeVars>>

\* the wait loop ends, a frame having arrived or the 5 s being over, and reset
\* returns the observation (odyssey_env.py:200-208)
FrameWaitEnd ==
    /\ fgPc = "frame_wait"
    /\ latest_frame # NoFrame \/ FirstFrameWaitOver(waited)
    /\ ReturnObservation
    /\ current_step' = 0
    /\ UNCHANGED <<episode_length, terminated, stepCall>>
    /\ UNCHANGED <<loop, stream_id, fgOp, calls, bridgeOutcome, timedOut>>
    /\ UNCHANGED notFg

\* future.result returns the coroutine's result or raises its exception
WaitReturn ==
    /\ fgPc = "waiting"
    /\ Awaited.state # "pending"
    /\ bridgeOutcome' = IF Awaited.state = "done" THEN "returned" ELSE Awaited.error
    /\ After(Awaited.state = "done", Awaited.value, Awaited.error)
    /\ StepCounters(fgOp = "step")
    /\ UNCHANGED <<fgOp, calls, timedOut>>
    /\ UNCHANGED notFg

\* future.result raises TimeoutError; the coroutine stays scheduled
WaitTimeout ==
    /\ fgPc = "waiting"
    /\ Awaited.state = "pending"
    /\ TimedOut(waited)
    /\ timedOut' = timedOut \cup {Len(tasks)}
    /\ bridgeOutcome' = "TimeoutError"
    /\ After(FALSE, NoStream, "TimeoutError")
    /\ StepCounters(fgOp = "step")
    /\ UNCHANGED <<fgOp, calls>>
    /\ UNCHANGED notFg

(***************************************************************************)
(* The coroutines, on the background loop.                                 *)
(***************************************************************************)
Runs(i) ==
    /\ loop = "running"
    /\ i \in 1..Len(tasks)
    /\ tasks[i].state = "pending"

SetTask(i, t) == tasks' = [tasks EXCEPT ![i] = t]

At(t, pc) == [t EXCEPT !.pc = pc]
Done(t, v) == [t EXCEPT !.state = "done", !.value = v, !.pc = "end"]
Raised(t, e) == [t EXCEPT !.state = "raised", !.error = e, !.pc = "end"]

\* a JSON message on the socket; by and late record which coroutine sent it
\* and whether its waiter had given up by then
Message(type, sid, prompt, i) ==
    [type |-> type, stream_id |-> sid, prompt |-> prompt, by |-> i,
     late |-> i \in timedOut]

\* what connect leaves alone
notConnect == <<stream_id, loop, fgVars, receivedAcks, inbox, acks, simFrames,
                frameStream,
                frame_queue, latest_frame, nonBridgeVars>>

\* what the other coroutines leave alone
notBg == <<notConnect, errorVars>>

\* self._connection_callbacks["error"](e, fatal), when one is registered
\* (odyssey_client.py:102-103, 120-121)
OnError(fatal) == IF error_callback THEN Append(errorCalled, fatal) ELSE errorCalled

\* OdysseyClient.connect (odyssey_client.py:44-104), on_error given or not
Connect(i, on_error) ==
    /\ Runs(i)
    /\ tasks[i].kind = "connect"
    /\ LET t == tasks[i] IN
         \/ /\ t.pc = "start"
            /\ env_client' = TRUE
            /\ error_callback' = on_error
            /\ session' = "open"
            /\ SetTask(i, At(t, "ws_connect"))
            /\ UNCHANGED <<ws, receiving_task, errorCalled>>
         \/ /\ t.pc = "ws_connect"
            \* the handshake succeeds, or fails: except Exception calls the
            \* error callback with fatal = True and connect returns False
            /\ \E ok \in BOOLEAN :
                 /\ ws' = IF ok THEN "open" ELSE ws
                 /\ receiving_task' = IF ok THEN "running" ELSE receiving_task
                 /\ errorCalled' = IF ok THEN errorCalled ELSE OnError(TRUE)
            /\ SetTask(i, Done(t, NoStream))
            /\ UNCHANGED <<env_client, session, error_callback>>
    /\ UNCHANGED <<current_stream_id, sent>>
    /\ UNCHANGED notConnect

\* _async_connect (odyssey_env.py:142-147): the client is created and connect
\* is given on_video_frame and on_stream_started only
BgConnect(i) == Connect(i, FALSE)

\* odyssey_client.py:186  return self.current_stream_id or "stream_" + ...
StartStreamResult(sid) == IF sid # NoStream THEN sid ELSE FabricatedId

\* OdysseyClient.start_stream (odyssey_client.py:155-186)
BgStartStream(i) ==
    /\ Runs(i)
    /\ tasks[i].kind = "start_stream"
    /\ LET t == tasks[i] IN
         \/ /\ t.pc = "start"
            /\ SetTask(i, IF ~env_client \/ ws = "none"
                            THEN Raised(t, "AttributeError")
                            ELSE At(t, "send"))
            /\ sent' = sent
         \/ /\ t.pc = "send"
            /\ IF ws = "open"
                 THEN /\ sent' = Append(sent, Message("start_stream", NoStream, NoPrompt, i))
                      /\ SetTask(i, At(t, "sleep"))
                 ELSE /\ sent' = sent
                      /\ SetTask(i, Raised(t, "ConnectionClosed"))
         \/ /\ t.pc = "sleep"
            /\ SetTask(i, Done(t, StartStreamResult(current_stream_id)))
            /\ sent' = sent
    /\ UNCHANGED <<env_client, ws, session, current_stream_id, receiving_task>>
    /\ UNCHANGED notBg

\* an interact that lets every call through
InteractNeverRefuses(sid) == FALSE

\* odyssey_client.py:195  if not self.current_stream_id
InteractRefuses(sid) == sid = NoStream

\* _interact and OdysseyClient.interact (odyssey_env.py:232-233,
\* odyssey_client.py:188-204)
BgInteract(i) ==
    /\ Runs(i)
    /\ tasks[i].kind = "interact"
    /\ LET t == tasks[i]
           c == [t EXCEPT !.sidAtCall = current_stream_id,
                          !.clientAtCall = env_client,
                          !.sid = current_stream_id] IN
         \/ /\ t.pc = "start"
            /\ SetTask(i, IF ~env_client THEN Raised(c, "AttributeError")
                          ELSE IF InteractRefuses(current_stream_id)
                                 THEN Raised(c, "RuntimeError")
                          ELSE IF ws = "none" THEN Raised(c, "AttributeError")
                          ELSE At(c, "send"))
            /\ sent' = sent
         \/ /\ t.pc = "send"
            /\ IF ws = "open"
                 THEN /\ sent' = Append(sent, Message("interact", t.sid, t.arg, i))
                      /\ SetTask(i, Done(t, NoStream))
                 ELSE /\ sent' = sent
                      /\ SetTask(i, Raised(t, "ConnectionClosed"))
    /\ UNCHANGED <<env_client, ws, session, current_stream_id, receiving_task>>
    /\ UNCHANGED notBg

\* _end_stream and OdysseyClient.end_stream (odyssey_env.py:173-174,
\* odyssey_client.py:206-217)
BgEndStream(i) ==
    /\ Runs(i)
    /\ tasks[i].kind = "end_stream"
    /\ LET t == tasks[i] IN
         \/ /\ t.pc = "start"
            /\ SetTask(i, IF current_stream_id = NoStream THEN Done(t, NoStream)
                          ELSE At([t EXCEPT !.sid = current_stream_id], "send"))
            /\ UNCHANGED <<sent, current_stream_id>>
         \/ /\ t.pc = "send"
            /\ IF ws = "open"
                 THEN /\ sent' = Append(sent, Message("end_stream", t.sid, NoPrompt, i))
                      /\ current_stream_id' = NoStream
                      /\ SetTask(i, Done(t, NoStream))
                 ELSE /\ UNCHANGED <<sent, current_stream_id>>
                      /\ SetTask(i, Raised(t, "ConnectionClosed"))
    /\ UNCHANGED <<env_client, ws, session, receiving_task>>
    /\ UNCHANGED notBg

\* OdysseyClient.disconnect up to its first await on the network
\* (odyssey_client.py:221-234): the receive task is cancelled and awaited
DisconnectBegin(i, t) ==
    /\ receiving_task' = IF receiving_task = "running" THEN "cancelled"
                                                       ELSE receiving_task
    /\ SetTask(i, IF ws # "none" THEN At(t, "ws_close")
                  ELSE IF session # "none" THEN At(t, "session_close")
                  ELSE Done(t, NoStream))

\* the rest of disconnect: ws.close(), then session.close()
DisconnectStep(i, t) ==
    \/ /\ t.pc = "ws_close"
       /\ ws' = "closed"
       /\ SetTask(i, IF session # "none" THEN At(t, "session_close")
                                         ELSE Done(t, NoStream))
       /\ UNCHANGED <<sent, current_stream_id, receiving_task, session>>
    \/ /\ t.pc = "session_close"
       /\ session' = "closed"
       /\ SetTask(i, Done(t, NoStream))
       /\ UNCHANGED <<sent, current_stream_id, receiving_task, ws>>

\* OdysseyClient.disconnect (odyssey_client.py:219-234), called directly
BgDisconnect(i) ==
    /\ Runs(i)
    /\ tasks[i].kind = "disconnect"
    /\ LET t == tasks[i] IN
         \/ /\ t.pc = "start"
            /\ DisconnectBegin(i, t)
            /\ UNCHANGED <<sent, current_stream_id, ws, session>>
         \/ DisconnectStep(i, t)
    /\ UNCHANGED env_client
    /\ UNCHANGED notBg

\* _cleanup (odyssey_env.py:356-359): end_stream, then disconnect
BgCleanup(i) ==
    /\ Runs(i)
    /\ tasks[i].kind = "cleanup"
    /\ LET t == tasks[i] IN
         \/ /\ t.pc = "start"
            /\ IF stream_id # NoStream /\ current_stream_id # NoStream
                 THEN /\ SetTask(i, At([t EXCEPT !.sid = current_stream_id], "send"))
                      /\ receiving_task' = receiving_task
                 ELSE DisconnectBegin(i, t)
            /\ UNCHANGED <<sent, current_stream_id, ws, session>>
         \/ /\ t.pc = "send"
            /\ IF ws = "open"
                 THEN /\ sent' = Append(sent, Message("end_stream", t.sid, NoPrompt, i))
                      /\ current_stream_id' = NoStream
                      /\ DisconnectBegin(i, t)
                 ELSE /\ UNCHANGED <<sent, current_stream_id, receiving_task>>
                      /\ SetTask(i, Raised(t, "ConnectionClosed"))
            /\ UNCHANGED <<ws, session>>
         \/ DisconnectStep(i, t)
    /\ UNCHANGED env_client
    /\ UNCHANGED notBg

\* one turn of OdysseyClient._receive_frames (odyssey_client.py:106-121) with
\* _handle_message (135-153) and the frame callback _on_frame
Receive ==
    /\ loop = "running"
    /\ receiving_task = "running"
    /\ ws = "open"
    /\ inbox # <<>>
    /\ inbox' = Tail(inbox)
    /\ LET msg == Head(inbox) IN
         CASE msg.type = "frame" ->
                /\ latest_frame' = msg.frame
                /\ frame_queue' = OnFrameQueue(frame_queue, msg.frame)
                /\ UNCHANGED <<current_stream_id, receivedAcks, receiving_task,
                               errorCalled>>
           [] msg.type = "stream_started" ->
                /\ current_stream_id' = msg.stream_id
                /\ receivedAcks' = receivedAcks \cup {msg.stream_id}
                /\ UNCHANGED <<receiving_task, frame_queue, latest_frame,
                               errorCalled>>
           [] msg.type = "bad_frame" ->
                \* _decode_frame raises inside the try that holds the whole
                \* async for: the except clause runs and the task ends
                /\ receiving_task' = "done"
                /\ errorCalled' = OnError(FALSE)
                /\ UNCHANGED <<current_stream_id, receivedAcks, frame_queue,
                               latest_frame>>
    /\ UNCHANGED <<envVars, fgVars, tasks, ws, session, error_callback, sent,
                   acks, simFrames, frameStream>>
    /\ UNCHANGED nonBridgeVars

\* the connection is lost: the async for raises, except Exception ends the task
ReceiveFault ==
    /\ loop = "running"
    /\ receiving_task = "running"
    /\ ws = "faulted"
    /\ receiving_task' = "done"
    /\ errorCalled' = OnError(FALSE)
    /\ UNCHANGED <<envVars, fgVars, tasks, ws, session, current_stream_id,
                   receivedAcks, error_callback, simVars>>
    /\ UNCHANGED <<frame_queue, latest_frame, nonBridgeVars>>

(***************************************************************************)
(* The simulator: it acknowledges a start_stream with stream_started and a *)
(* fresh identifier, at any time or never, then sends frames; the          *)
(* connection can be lost at any time.                                     *)
(***************************************************************************)
StartsSent == Cardinality({k \in 1..Len(sent) : sent[k].type = "start_stream"})

Inbound(type, sid, frame) == [type |-> type, stream_id |-> sid, frame |-> frame]

SimAck ==
    /\ ws = "open"
    /\ acks < StartsSent
    /\ acks' = acks + 1
    /\ inbox' = Append(inbox, Inbound("stream_started", acks + 1, NoFrame))
    /\ UNCHANGED <<envVars, fgVars, tasks, clientVars, sent, simFrames, frameStream>>
    /\ UNCHANGED <<frame_queue, latest_frame, nonBridgeVars>>

SimFrame ==
    /\ ws = "open"
    /\ acks > 0
    /\ simFrames < MaxSimFrames
    /\ simFrames' = simFrames + 1
    \* the simulator streams the stream it acknowledged last
    /\ frameStream' = Append(frameStream, acks)
    \* a binary message: an encoded image, or bytes that are not one
    /\ \E type \in {"frame", "bad_frame"} :
         inbox' = Append(inbox, Inbound(type, NoStream, simFrames + 1))
    /\ UNCHANGED <<envVars, fgVars, tasks, clientVars, sent, acks>>
    /\ UNCHANGED <<frame_queue, latest_frame, nonBridgeVars>>

TransportFault ==
    /\ ws = "open"
    /\ ws' = "faulted"
    /\ inbox' = <<>>
    /\ UNCHANGED <<envVars, fgVars, tasks, session, current_stream_id,
                   receiving_task, receivedAcks, errorVars, sent, acks, simFrames,
                   frameStream>>
    /\ UNCHANGED <<frame_queue, latest_frame, nonBridgeVars>>

NextBridge ==
    \/ CallReset
    \/ CallStep
    \/ CallClose
    \/ LoopThreadStart
    \/ SpawnDone
    \/ Tick
    \/ WaitReturn
    \/ WaitTimeout
    \/ FrameWaitTick
    \/ FrameWaitEnd
    \/ \E i \in 1..Len(tasks) : BgConnect(i)
    \/ \E i \in 1..Len(tasks) : BgStartStream(i)
    \/ \E i \in 1..Len(tasks) : BgInteract(i)
    \/ \E i \in 1..Len(tasks) : BgEndStream(i)
    \/ \E i \in 1..Len(tasks) : BgCleanup(i)
    \/ Receive
    \/ ReceiveFault
    \/ SimAck
    \/ SimFrame
    \/ TransportFault

(***************************************************************************)
(* OdysseyClient used without the environment: an asyncio program holds a  *)
(* client and awaits one call after another, in any order; it connects at  *)
(* most once.                                                              *)
(***************************************************************************)
ClientKinds == {"connect", "start_stream", "interact", "end_stream", "disconnect"}

ClientCall ==
    /\ calls < MaxClientCalls
    /\ \A i \in 1..Len(tasks) : tasks[i].state # "pending"
    /\ \E kind \in ClientKinds :
         /\ kind = "connect" => \A i \in 1..Len(tasks) : tasks[i].kind # "connect"
         /\ tasks' = Append(tasks, NewTask(kind, IF kind = "interact" THEN S_forward
                                                                      ELSE NoPrompt))
    /\ calls' = calls + 1
    /\ UNCHANGED <<fgOp, fgPc, fgStage, fgArg, fgResult, fgError, fgObs, waited,
                   bridgeOutcome, timedOut>>
    /\ UNCHANGED <<envVars, clientVars, simVars>>
    /\ UNCHANGED <<frame_queue, latest_frame, nonBridgeVars>>

NextClient ==
    \/ ClientCall
    \/ \E i \in 1..Len(tasks) : \E on_error \in BOOLEAN : Connect(i, on_error)
    \/ \E i \in 1..Len(tasks) : BgStartStream(i)
    \/ \E i \in 1..Len(tasks) : BgInteract(i)
    \/ \E i \in 1..Len(tasks) : BgEndStream(i)
    \/ \E i \in 1..Len(tasks) : BgDisconnect(i)
    \/ Receive
    \/ ReceiveFault
    \/ SimAck
    \/ SimFrame
    \/ TransportFault

(***************************************************************************)
(* OdysseyClient._handle_message (odyssey_client.py:135-153), given one    *)
(* JSON message after another.  A message is a dict; a key it lacks is     *)
(* Absent (NoStream for stream_id, which data.get then gives as None).     *)
(***************************************************************************)
MaxEvents == 3

StreamEvents == {"stream_started", "stream_ended", "stream_error"}

Event(type, sid, reason, message) ==
    [type |-> type, stream_id |-> sid, reason |-> reason, message |-> message]

NoEvent == Event("none", NoStream, Absent, Absent)

Events ==
    {Event("stream_started", sid, Absent, Absent) : sid \in {NoStream, 1, 2}}
      \cup {Event("stream_ended", NoStream, Absent, Absent)}
      \cup {Event("error", NoStream, r, msg) : r \in {Absent, "timeout"},
                                               msg \in {Absent, "slow"}}
      \cup {Event("ping", NoStream, Absent, Absent)}

Callback(name, args) == [name |-> name, args |-> args]

\* self._connection_callbacks[name](*args), if there is such a callback
CallIfRegistered(cbs, name, args) ==
    IF name \in cbs THEN <<Callback(name, args)>> ELSE <<>>

\* dict.get(key, default)
GetOr(v, default) == IF v = Absent THEN default ELSE v

\* the stream id after the message, and the callbacks invoked
HandleMessage(data, sid, cbs) ==
    CASE data.type = "stream_started" ->
            [sid |-> data.stream_id,
             called |-> CallIfRegistered(cbs, "stream_started", <<data.stream_id>>)]
      [] data.type = "stream_ended" ->
            [sid |-> sid, called |-> CallIfRegistered(cbs, "stream_ended", <<>>)]
      [] data.type = "error" ->
            [sid |-> sid,
             called |-> CallIfRegistered(cbs, "stream_error",
                                         <<GetOr(data.reason, "unknown"),
                                           GetOr(data.message, "")>>)]
      [] OTHER -> [sid |-> sid, called |-> <<>>]

InitEventsIn(C) ==
    /\ connection_callbacks \in C
    /\ eventCalled = <<>>
    /\ lastEvent = NoEvent
    /\ sidBeforeEvent = NoStream
    /\ handled = 0

\* odyssey_client.py:41  self._connection_callbacks = {}
InitEvents == InitEventsIn({{}})

HandleMessageCall ==
    /\ handled < MaxEvents
    /\ \E data \in Events :
         LET r == HandleMessage(data, current_stream_id, connection_callbacks) IN
           /\ current_stream_id' = r.sid
           /\ eventCalled' = r.called
           /\ lastEvent' = data
    /\ sidBeforeEvent' = current_stream_id
    /\ handled' = handled + 1
    /\ UNCHANGED connection_callbacks
    /\ UNCHANGED <<frameVars, judgeVars, detectorVars, callbackVars, mockVars,
                   translatorVars, strategyVars>>
    /\ UNCHANGED <<envVars, fgVars, tasks, ws, session, receiving_task, receivedAcks,
                   errorVars, simVars, stepVars>>

NextEvents == HandleMessageCall

(***************************************************************************)
(* OdysseyEnv._action_to_prompt for a continuous action                    *)
(* (odyssey_env.py:308-325).  Components are hundredths: 30 is 0.3.  A     *)
(* prompt is the sequence of its phrases with the connective " and "       *)
(* between them; the empty sequence is the empty string.                   *)
(***************************************************************************)
MaxTranslations == 1

Abs(x) == IF x < 0 THEN -x ELSE x

Connective == " and "

\* str.join: the parts with sep between them
RECURSIVE Join(_, _)
Join(parts, sep) ==
    IF Len(parts) <= 1 THEN parts
    ELSE <<Head(parts), sep>> \o Join(Tail(parts), sep)

\* a deadband that lets the threshold itself through
ExceedsOrEquals(x, threshold) == x >= threshold

\* x > threshold
Exceeds(x, threshold) == x > threshold

\* lines 313-318: one positional axis
AxisPart(v, pos, neg) ==
    IF Exceeds(Abs(v), 30) THEN <<IF v > 0 THEN pos ELSE neg>> ELSE <<>>

\* lines 319-322: the gripper
GripperPart(g) ==
    IF Exceeds(g, 50) THEN <<"close gripper">>
    ELSE IF Exceeds(-g, 50) THEN <<"open gripper">>
    ELSE <<>>

ActionToPrompt(task, a) ==
    IF task = "manipulation"
    THEN Join(AxisPart(a[1], "move arm right", "move arm left")
                \o AxisPart(a[2], "move arm forward", "move arm backward")
                \o AxisPart(a[3], "move arm up", "move arm down")
                \o GripperPart(a[4]),
              Connective)
    ELSE <<>>

\* components on both sides of each threshold, and the thresholds themselves
AxisValues == {-40, -30, 0, 30, 40}
GripperValues == {-60, -50, 0, 50, 60}

InitTranslatorIn(T) ==
    /\ task_type \in T
    /\ action = <<0, 0, 0, 0>>
    /\ instruction = <<>>
    /\ translated = 0

\* odyssey_env.py:35  task_type: str = "navigation"
InitTranslator == InitTranslatorIn({"navigation"})

ActionToPromptCall ==
    /\ translated < MaxTranslations
    /\ \E dx \in AxisValues, dy \in AxisValues, dz \in AxisValues, g \in GripperValues :
         /\ action' = <<dx, dy, dz, g>>
         /\ instruction' = ActionToPrompt(task_type, <<dx, dy, dz, g>>)
    /\ translated' = translated + 1
    /\ UNCHANGED task_type
    /\ UNCHANGED <<frameVars, judgeVars, detectorVars, callbackVars, mockVars,
                   bridgeVars, eventVars, strategyVars>>

NextTranslator == ActionToPromptCall

(***************************************************************************)
(* The deterministic curriculum strategies (strategies.py).  categories    *)
(* is a dict from a category name to its example instructions; a sequence  *)
(* of [name, examples] here, in the dict's order.  random.choice is a      *)
(* choice among the elements of its argument, so each strategy is the set  *)
(* of results it can return.  success_rate is in hundredths.               *)
(***************************************************************************)
MaxSelections == 1

\* controller.py:35-56: the categories the controller is constructed with
DefaultPerturbations ==
    << [name |-> "lighting",
        examples |-> <<"switch to harsh overhead fluorescent lighting",
                       "dim the lights significantly",
                       "add dramatic side lighting with strong shadows">>],
       [name |-> "occlusion",
        examples |-> <<"place a transparent object partially blocking the view",
                       "add some clutter near the target">>],
       [name |-> "visual",
        examples |-> <<"desaturate the scene",
                       "change colors to be more similar",
                       "add visual noise to the image">>],
       [name |-> "distraction",
        examples |-> <<"add colorful objects in the background",
                       "place similar objects nearby">>] >>

\* a perturbation_categories argument without "lighting" and "visual"
CustomPerturbations ==
    << [name |-> "occlusion", examples |-> <<"add some clutter near the target">>],
       [name |-> "distraction", examples |-> <<"place similar objects nearby">>] >>

Range(q) == {q[i] : i \in 1..Len(q)}

\* category in categories
Configured(category, cats) == \E i \in 1..Len(cats) : cats[i].name = category

\* random.choice(categories[category])
Examples(category, cats) ==
    UNION {Range(cats[i].examples) : i \in {j \in 1..Len(cats) : cats[j].name = category}}

\* RandomStrategy.select_perturbation (lines 26-36)
RandomStrategy(failure_modes, success_rate, cats) ==
    UNION {Range(cats[i].examples) : i \in 1..Len(cats)}

\* a strategy that targets the last detected failure mode
TargetedLast(failure_modes, success_rate, cats) ==
    IF failure_modes # <<>> /\ Configured(failure_modes[Len(failure_modes)], cats)
    THEN Examples(failure_modes[Len(failure_modes)], cats)
    ELSE RandomStrategy(failure_modes, success_rate, cats)

\* TargetedStrategy.select_perturbation (lines 42-56)
TargetedStrategy(failure_modes, success_rate, cats) ==
    IF failure_modes # <<>> /\ Configured(failure_modes[1], cats)
    THEN Examples(failure_modes[1], cats)
    ELSE RandomStrategy(failure_modes, success_rate, cats)

\* lines 70-78: the band of the success rate
Band(success_rate) ==
    IF success_rate < 30 THEN "visual"
    ELSE IF success_rate < 60 THEN "lighting"
    ELSE "occlusion"

\* ProgressiveStrategy.select_perturbation (lines 62-83)
ProgressiveStrategy(failure_modes, success_rate, cats) ==
    IF Configured(Band(success_rate), cats)
    THEN Examples(Band(success_rate), cats)
    ELSE RandomStrategy(failure_modes, success_rate, cats)

Select(strategy, failure_modes, success_rate, cats) ==
    CASE strategy = "random" -> RandomStrategy(failure_modes, success_rate, cats)
      [] strategy = "targeted" -> TargetedStrategy(failure_modes, success_rate, cats)
      [] strategy = "progressive" ->
            ProgressiveStrategy(failure_modes, success_rate, cats)

\* the failure_modes arguments: up to two names, one of them of no category
ModeNames == {"visual", "occlusion", "glare"}
FailureModeLists ==
    {<<>>} \cup {<<a>> : a \in ModeNames} \cup {<<a, b>> : a, b \in ModeNames}

\* success rates on both sides of each band limit, and the limits themselves
SuccessRates == {0, 29, 30, 45, 59, 60, 61, 100}

NoSelect == [strategy |-> "none", failure_modes |-> <<>>, success_rate |-> 0,
             choices |-> {}, result |-> ""]

InitStrategyIn(C) ==
    /\ perturbation_categories \in C
    /\ selections = 0
    /\ selectCall = NoSelect

InitStrategy == InitStrategyIn({DefaultPerturbations})

\* one select_perturbation call on one of the three strategies
SelectPerturbation ==
    /\ selections < MaxSelections
    /\ selections' = selections + 1
    /\ \E strategy \in {"random", "targeted", "progressive"},
          failure_modes \in FailureModeLists, success_rate \in SuccessRates :
         LET choices == Select(strategy, failure_modes, success_rate,
                               perturbation_categories)
         IN \E result \in choices :
              selectCall' = [strategy |-> strategy, failure_modes |-> failure_modes,
                             success_rate |-> success_rate, choices |-> choices,
                             result |-> result]
    /\ UNCHANGED perturbation_categories
    /\ UNCHANGED <<frameVars, judgeVars, detectorVars, callbackVars, mockVars,
                   bridgeVars, eventVars, translatorVars>>

NextStrategy == SelectPerturbation

\* every component as constructed; the detector and the callback with one
\* configuration
Init ==
    /\ InitFrames
    /\ InitJudge
    /\ InitDetector({MaxWindow})
    /\ InitCallback({MaxFrequency})
    /\ InitMock
    /\ InitBridge
    /\ InitEvents
    /\ InitTranslator
    /\ InitStrategy
    /\ InitEpisode

\* the same, for every configuration of the detector and the callback
InitAdapt ==
    /\ InitFrames
    /\ InitJudge
    /\ InitDetector(1..MaxWindow)
    /\ InitCallback(1..MaxFrequency)
    /\ InitMock
    /\ InitBridge
    /\ InitEvents
    /\ InitTranslator
    /\ InitStrategy
    /\ InitEpisode

SpecFrames == Init /\ [][NextFrames]_vars

SpecJudge == Init /\ [][NextJudge]_vars

SpecHistory == Init /\ [][NextHistory]_vars

SpecAdapt == InitAdapt /\ [][NextAdapt]_vars

\* the detector for every window_size up to MaxWindow and the window of 10 of
\* the documentation's example, with the default and with custom categories
InitDetect ==
    /\ InitFrames
    /\ InitJudge
    /\ InitDetectorIn(1..MaxWindow \cup {10}, {Categories, CustomCategories, PairCategories})
    /\ InitCallback({MaxFrequency})
    /\ InitMock
    /\ InitBridge
    /\ InitEvents
    /\ InitTranslator
    /\ InitStrategy
    /\ InitEpisode

SpecDetector == InitDetect /\ [][NextDetector]_vars

\* the strategies with the controller's categories and with custom ones
InitSelect ==
    /\ InitFrames
    /\ InitJudge
    /\ InitDetector({MaxWindow})
    /\ InitCallback({MaxFrequency})
    /\ InitMock
    /\ InitBridge
    /\ InitEvents
    /\ InitTranslator
    /\ InitStrategyIn({DefaultPerturbations, CustomPerturbations})
    /\ InitEpisode

SpecStrategy == InitSelect /\ [][NextStrategy]_vars

\* the environment for every episode_length up to MaxEpisodeLen
InitStep ==
    /\ InitFrames
    /\ InitJudge
    /\ InitDetector({MaxWindow})
    /\ InitCallback({MaxFrequency})
    /\ InitMock
    /\ InitBridge
    /\ InitEvents
    /\ InitTranslator
    /\ InitStrategy
    /\ InitEpisodeIn(1..MaxEpisodeLen)

\* reset and step with any action, over the same background loop
NextStep ==
    \/ CallReset
    \/ CallStepAny
    \/ LoopThreadStart
    \/ SpawnDone
    \/ Tick
    \/ WaitReturn
    \/ WaitTimeout
    \/ FrameWaitTick
    \/ FrameWaitEnd
    \/ \E i \in 1..Len(tasks) : BgConnect(i)
    \/ \E i \in 1..Len(tasks) : BgStartStream(i)
    \/ \E i \in 1..Len(tasks) : BgInteract(i)
    \/ \E i \in 1..Len(tasks) : BgEndStream(i)
    \/ Receive
    \/ ReceiveFault
    \/ SimAck
    \/ SimFrame
    \/ TransportFault

SpecStep == InitStep /\ [][NextStep]_vars

\* the bridge, with calls made on the environment after a close()
NextClosed ==
    \/ CallResetWhen(CallsLeftAfterClose)
    \/ CallStepWhen(CallsLeftAfterClose, BridgePrompts)
    \/ CallCloseWhen(CallsLeftAfterClose)
    \/ LoopThreadStart
    \/ SpawnDone
    \/ Tick
    \/ WaitReturn
    \/ WaitTimeout
    \/ FrameWaitTick
    \/ FrameWaitEnd
    \/ \E i \in 1..Len(tasks) : BgConnect(i)
    \/ \E i \in 1..Len(tasks) : BgStartStream(i)
    \/ \E i \in 1..Len(tasks) : BgInteract(i)
    \/ \E i \in 1..Len(tasks) : BgEndStream(i)
    \/ \E i \in 1..Len(tasks) : BgCleanup(i)
    \/ Receive
    \/ ReceiveFault
    \/ SimAck
    \/ SimFrame
    \/ TransportFault

SpecClosed == Init /\ [][NextClosed]_vars

SpecMock == Init /\ [][NextMock]_vars

SpecBridge == Init /\ [][NextBridge]_vars

\* a client constructed (odyssey_client.py:34-42) inside a running loop
InitClient ==
    /\ InitFrames
    /\ InitJudge
    /\ InitDetector({MaxWindow})
    /\ InitCallback({MaxFrequency})
    /\ InitMock
    /\ InitBridgeIn(TRUE, "running")
    /\ InitEvents
    /\ InitTranslator
    /\ InitStrategy
    /\ InitEpisode

SpecClient == InitClient /\ [][NextClient]_vars

\* a connected client with any of the stream callbacks registered
\* (odyssey_client.py:71-77)
InitHandler ==
    /\ InitFrames
    /\ InitJudge
    /\ InitDetector({MaxWindow})
    /\ InitCallback({MaxFrequency})
    /\ InitMock
    /\ InitBridgeIn(TRUE, "running")
    /\ InitEventsIn(SUBSET StreamEvents)
    /\ InitTranslator
    /\ InitStrategy
    /\ InitEpisode

SpecEvents == InitHandler /\ [][NextEvents]_vars

\* an environment with continuous actions, for either task
InitAction ==
    /\ InitFrames
    /\ InitJudge
    /\ InitDetector({MaxWindow})
    /\ InitCallback({MaxFrequency})
    /\ InitMock
    /\ InitBridge
    /\ InitEvents
    /\ InitTranslatorIn({"navigation", "manipulation"})
    /\ InitStrategy
    /\ InitEpisode

SpecAction == InitAction /\ [][NextTranslator]_vars

(***************************************************************************)
(* C1.  Any number n of frames pushed through _on_frame with no consumer   *)
(* dequeue in between leaves exactly the min(n, capacity) most recently    *)
(* pushed frames in the queue, in push order, after max(0, n - capacity)   *)
(* evictions.                                                              *)
(***************************************************************************)
LastPushed(n, k) == [i \in 1..k |-> n - k + i]

C1_KeepLatest ==
    (dequeued = 0 /\ pcFrame = "idle") =>
        /\ frame_queue = LastPushed(pushed, Min(pushed, QueueMaxsize))
        /\ evicted = Max(0, pushed - QueueMaxsize)
        /\ dropped = 0

C1_Witness ==
    /\ dequeued = 0
    /\ pcFrame = "idle"
    /\ pushed = QueueMaxsize + 2
    /\ evicted = 2
    /\ frame_queue = [i \in 1..QueueMaxsize |-> i + 2]

(***************************************************************************)
(* C7.  Under every interleaving of _on_frame with consumer dequeues and   *)
(* latest-frame reads: a push never blocks (a started _on_frame can always *)
(* take its next step, whatever the queue holds) and never raises, a read  *)
(* never blocks (an observation is always available), and the queue never  *)
(* holds more than its capacity.                                           *)
(***************************************************************************)
C7_NonBlockingBounded ==
    /\ Len(frame_queue) <= QueueMaxsize
    /\ onFrameResult # "raised"
    /\ (pcFrame # "idle" => ENABLED ProducerStep)
    /\ ENABLED GetObservation

C7_Witness ==
    /\ dequeued > 0
    /\ evicted > 0
    /\ lastObs > QueueMaxsize
    /\ Len(frame_queue) = QueueMaxsize
    /\ pcFrame = "idle"
    /\ onFrameResult = "returned"
(***************************************************************************)
(* C10.  When the judgment service call fails or its reply cannot be       *)
(* parsed, evaluate_performance does not raise: it returns the fallback    *)
(* judgment (failure_mode llm_evaluation_error, no perturbation            *)
(* instruction, the difficulty of before the call) and leaves the          *)
(* controller's difficulty unchanged; a later call with a valid reply is   *)
(* processed normally.                                                     *)
(***************************************************************************)
\* the reply is a service failure or does not parse to a JSON object with a
\* usable difficulty_adjustment
ReplyFails(r) ==
    \/ r.api = "error"
    \/ ~r.hasContent
    \/ ~JsonLoads(StripFences(r.text)).ok
    \/ JsonLoads(StripFences(r.text)).kind # "OBJ"
    \/ r.obj.difficulty_adjustment.k \in {"str", "null"}

C10_FallbackOnFailure ==
    evalCalls > 0 =>
        /\ evalOutcome = "returned"
        /\ ReplyFails(lastReply) =>
             /\ lastJudgment.failure_mode = "llm_evaluation_error"
             /\ lastJudgment.curriculum_prompt = None
             /\ lastJudgment.difficulty_level = difficultyBefore
             /\ difficulty = difficultyBefore
        /\ ~ReplyFails(lastReply) =>
             /\ lastJudgment.failure_mode = Get(lastReply.obj, "failure_mode", None)
             /\ lastJudgment.curriculum_prompt =
                    Get(lastReply.obj, "curriculum_prompt", None)
             /\ lastJudgment.difficulty_level = difficulty
             /\ evaluation_history # <<>>
             /\ evaluation_history[Len(evaluation_history)] = lastJudgment

\* a failed call (after a changed difficulty) followed by a valid one
C10_Witness ==
    /\ evalCalls = 3
    /\ failedCalls = 1
    /\ Len(evaluation_history) = 2
    /\ evaluation_history[1].difficulty_level = 40
    /\ evaluation_history[2].difficulty_level = 50
    /\ lastJudgment.curriculum_prompt = "prompt"
    /\ difficultyBefore = 40
(***************************************************************************)
(* C8.  The controller is invoked only at an episode boundary where the    *)
(* number of completed episodes is a multiple of adaptation_frequency and  *)
(* should_adapt() is true, for every window_size and adaptation_frequency, *)
(* also once the rolling window is full.                                   *)
(***************************************************************************)
C8_AdaptOnlyOnCadence ==
    controllerInvoked =>
        /\ completed % adaptation_frequency = 0
        /\ ShouldAdapt(episode_successes, window_size, min_success_rate)

(***************************************************************************)
(* C9.  An instruction returned by the controller in an adaptation step is *)
(* the instruction of the next interact() call on the bridge.              *)
(***************************************************************************)
C9_PerturbationIsNextInteract ==
    (lastPerturbation # NoAttr /\ interactsSinceAdapt = 1) =>
        firstInteractSinceAdapt = lastPerturbation
(***************************************************************************)
(* C5.  end_stream() on a session that is not streaming (already ended, or *)
(* never started) is a no-op: no callback is invoked and the client's      *)
(* state is unchanged; on a streaming session it leaves the session ended. *)
(* Stated here of the mock transport.                                      *)
(***************************************************************************)
C5_EndStreamIdempotent ==
    mockOp = "end_stream" =>
        /\ mock_stream_id = NoStream
        /\ mockPre.stream_id = NoStream => (mockCalled = <<>> /\ MockState = mockPre)

(***************************************************************************)
(* C2.  _run_coroutine keeps the foreground waiting until the submitted    *)
(* coroutine has finished or 30 time units have passed.  It stops waiting  *)
(* for a coroutine that has not finished only at 30 units, and then with   *)
(* TimeoutError; the coroutine is left as it is, not cancelled, and can    *)
(* still run to its end.                                                   *)
(***************************************************************************)
WaitEnds == fgPc = "waiting" /\ (fgPc' # "waiting" \/ Len(tasks') > Len(tasks))

C2_BlocksUntilDoneOrTimeout ==
    [][WaitEnds =>
         LET i == Len(tasks) IN
         \/ /\ tasks[i].state = "done"
            /\ bridgeOutcome' = "returned"
            /\ timedOut' = timedOut
         \/ /\ tasks[i].state = "raised"
            /\ bridgeOutcome' = tasks[i].error
            /\ timedOut' = timedOut
         \/ /\ tasks[i].state = "pending"
            /\ waited = RunCoroutineTimeout
            /\ bridgeOutcome' = "TimeoutError"
            /\ timedOut' = timedOut \cup {i}
            /\ tasks'[i] = tasks[i]]_vars

\* a coroutine whose waiter timed out went on to send its message and finish
C2_Witness ==
    \E i \in timedOut :
        /\ tasks[i].state = "done"
        /\ \E k \in 1..Len(sent) : sent[k].by = i /\ sent[k].late

(***************************************************************************)
(* C3.  start_stream returns an identifier only if the client has handled  *)
(* a stream_started event carrying that identifier; without one it fails   *)
(* and reports no identifier.                                              *)
(***************************************************************************)
C3_IdOnlyAfterAck ==
    \A i \in 1..Len(tasks) :
        (tasks[i].kind = "start_stream" /\ tasks[i].state = "done")
            => tasks[i].value \in receivedAcks

(***************************************************************************)
(* C4.  An interact called on a client whose current_stream_id is unset    *)
(* (nothing started or acknowledged yet, or the stream ended) fails with   *)
(* the no-active-stream RuntimeError and sends nothing.  Called with a     *)
(* stream id set it sends at most one message; when it returns it has sent *)
(* exactly one interact message, carrying that stream id and the           *)
(* instruction; it fails only because the connection is gone, having sent  *)
(* nothing.                                                                *)
(***************************************************************************)
SentBy(i) == {k \in 1..Len(sent) : sent[k].by = i}

C6_CloseReleases ==
    (fgOp = "close" /\ fgPc = "idle" /\ env_client) =>
        /\ fgResult = "returned"
        /\ receiving_task # "running"
        /\ ws # "open"
        /\ session # "open"

(***************************************************************************)
(* C11.  The difficulty starts at 0.3 and stays within [0.1, 1.0] after    *)
(* any sequence of evaluate_performance calls, whatever the service        *)
(* replies; every JudgmentResult returned or kept in the history carries a *)
(* difficulty_level within [0.1, 1.0].                                     *)
(***************************************************************************)
C11_DifficultyInRange ==
    /\ evalCalls = 0 => difficulty = 30
    /\ difficulty >= 10 /\ difficulty <= 100
    /\ evalOutcome = "returned" =>
           lastJudgment.difficulty_level >= 10 /\ lastJudgment.difficulty_level <= 100
    /\ \A k \in 1..Len(evaluation_history) :
           /\ evaluation_history[k].difficulty_level >= 10
           /\ evaluation_history[k].difficulty_level <= 100

\* after a failed call, a reply of +0.3 arrives at difficulty 0.9
C11_Witness ==
    /\ failedCalls > 0
    /\ evalOutcome = "returned"
    /\ lastReply.hasContent
    /\ lastReply.obj.difficulty_adjustment = Num(30)
    /\ difficultyBefore = 90
    /\ difficulty = 100

(***************************************************************************)
(* C12.  On a successfully parsed reply whose difficulty delta is the      *)
(* number d, the new difficulty is clamp(old + d, 0.1, 1.0), the returned  *)
(* JudgmentResult carries that value and the reply's perturbation          *)
(* instruction; 0.95 with +0.10 gives 1.0 and 0.15 with -0.10 gives 0.10.  *)
(***************************************************************************)
ParsedWithDelta(r) == ~ReplyFails(r) /\ r.obj.difficulty_adjustment.k = "num"

C12_ClampedUpdate ==
    (evalCalls > 0 /\ evalOutcome = "returned" /\ ParsedWithDelta(lastReply)) =>
        LET x == difficultyBefore + lastReply.obj.difficulty_adjustment.v
            expected == IF x < 10 THEN 10 ELSE IF x > 100 THEN 100 ELSE x
            prompt == lastReply.obj.curriculum_prompt
        IN /\ difficulty = expected
           /\ lastJudgment.difficulty_level = expected
           /\ lastJudgment.curriculum_prompt = (IF prompt = Absent THEN None ELSE prompt)
           /\ (difficultyBefore = 95 /\ x = 105) => difficulty = 100
           /\ (difficultyBefore = 15 /\ x = 5) => difficulty = 10

\* 0.95 with a delta of +0.10
C12_Witness ==
    /\ evalCalls > 0
    /\ evalOutcome = "returned"
    /\ ParsedWithDelta(lastReply)
    /\ lastReply.obj.difficulty_adjustment.v = 10
    /\ difficultyBefore = 95
    /\ difficulty = 100
    /\ lastJudgment.curriculum_prompt = "prompt"

(***************************************************************************)
(* C13.  One evaluation never changes the difficulty by more than 0.1: a   *)
(* delta outside [-0.1, 0.1] is rejected or clamped before it is applied.  *)
(***************************************************************************)
C13_DeltaBounded ==
    evalOutcome = "returned" =>
        /\ difficulty - difficultyBefore <= 10
        /\ difficultyBefore - difficulty <= 10

(***************************************************************************)
(* C14.  For every window_size and history, should_adapt() is false while  *)
(* the number of recorded episodes is below half of window_size, and       *)
(* otherwise true exactly when successes / recorded is strictly below      *)
(* min_success_rate.                                                       *)
(***************************************************************************)
C14_ShouldAdaptRule ==
    LET n == Len(episode_successes) IN
    ShouldAdapt(episode_successes, window_size, min_success_rate)
        = (IF 2 * n < window_size THEN FALSE
           ELSE CountTrue(episode_successes) * 100 < min_success_rate * n)

(***************************************************************************)
(* C15.  record_episode adds exactly one to the tally of a configured      *)
(* category if and only if success is false, a label is present and the    *)
(* category's name occurs in the label, compared without regard to case;   *)
(* every other tally is unchanged.                                         *)
(***************************************************************************)
C15_TallyRule ==
    fdCall.op = "record" =>
        \A i \in 1..Len(categories) :
            failure_counts[i] = fdCall.counts[i]
                + (IF /\ ~fdCall.success
                      /\ fdCall.conditions # <<>>
                      /\ Contains(Lower(fdCall.conditions), Lower(categories[i]))
                   THEN 1 ELSE 0)

(***************************************************************************)
(* C16.  After any sequence of record_episode and reset_statistics calls   *)
(* the three windows have the same length, at most window_size, and hold   *)
(* the most recent min(n, window_size) values recorded since the last      *)
(* reset, oldest first.                                                    *)
(***************************************************************************)
C16_WindowsHoldMostRecent ==
    LET n == Len(recorded)
        k == Min(n, window_size)
    IN /\ Len(episode_rewards) = k
       /\ Len(episode_successes) = k
       /\ Len(episode_lengths) = k
       /\ k <= window_size
       /\ \A i \in 1..k :
            /\ episode_rewards[i] = recorded[n - k + i].reward
            /\ episode_successes[i] = recorded[n - k + i].success
            /\ episode_lengths[i] = recorded[n - k + i].length

\* a reset, then more episodes than the window holds
C16_Witness ==
    /\ fdCall.op = "record"
    /\ recorded # <<>>
    /\ recorded[1].reward > 1
    /\ Len(recorded) > window_size
    /\ window_size > 1
(***************************************************************************)
(* C17.  When the interact submitted by step() fails (no active stream, a  *)
(* transport fault, a bridge timeout), step() ends with an explicit error  *)
(* for its caller, never with a normal (observation, reward, terminated,   *)
(* truncated, info) return.  bridgeOutcome is how step's own _run_coroutine *)
(* call ended.                                                             *)
(***************************************************************************)
C17_StepReportsInteractFailure ==
    (fgOp = "step" /\ fgPc = "idle" /\ bridgeOutcome # "returned")
        => fgResult = "raised"

(***************************************************************************)
(* C18.  A malformed binary frame is dropped without ending the receive    *)
(* path: the turn of the receive loop that takes a frame which fails to    *)
(* decode leaves the receive task running, so that later frames and JSON   *)
(* events of the session are still received.                               *)
(***************************************************************************)
C18_MalformedFrameDropped ==
    [][(/\ loop = "running"
        /\ receiving_task = "running"
        /\ ws = "open"
        /\ inbox # <<>>
        /\ Head(inbox).type = "bad_frame"
        /\ inbox' = Tail(inbox))
          => receiving_task' = "running"]_vars

(***************************************************************************)
(* C19.  A transport fault raised in the receive loop while a stream is    *)
(* active leaves the session no longer streaming (interact is refused),    *)
(* invokes the registered error callback exactly once, with fatal = False, *)
(* and neither closes the transport nor stops the background loop.         *)
(***************************************************************************)
C19_FaultMovesToError ==
    [][(/\ loop = "running"
        /\ receiving_task = "running"
        /\ ws = "faulted"
        /\ error_callback
        /\ ~InteractRefuses(current_stream_id)
        /\ receiving_task' = "done")
          => /\ InteractRefuses(current_stream_id')
             /\ errorCalled' = Append(errorCalled, FALSE)
             /\ ws' = ws
             /\ loop' = loop]_vars

\* the connect of submission i has ended and its handshake did not complete
HandshakeFailed(i) ==
    /\ tasks[i].kind = "connect"
    /\ tasks[i].state # "pending"
    /\ ws = "none"

(***************************************************************************)
(* C20.  When the handshake cannot complete, connect() raises              *)
(* ConnectionError, the registered error callback has been invoked exactly *)
(* once, with fatal = True, and the session is not connected: no receive   *)
(* task, no stream identifier, no start_stream sent.                       *)
(***************************************************************************)
C20_FailedHandshake ==
    \A i \in 1..Len(tasks) :
        HandshakeFailed(i) =>
            /\ tasks[i].state = "raised"
            /\ tasks[i].error = "ConnectionError"
            /\ error_callback => errorCalled = <<TRUE>>
            /\ receiving_task = "none"
            /\ current_stream_id = NoStream
            /\ StartsSent = 0

\* the callback of an event was invoked once with args, if it is registered
Notified(name, args) ==
    name \in connection_callbacks => eventCalled = <<Callback(name, args)>>

(***************************************************************************)
(* C21.  Every inbound JSON event updates the session and invokes the      *)
(* matching callback: stream_started records the stream id and calls the   *)
(* stream_started callback with it; stream_ended leaves the session not    *)
(* streaming (interact is refused) and calls the stream_ended callback;    *)
(* error calls the stream_error callback with the event's reason and       *)
(* message.                                                                *)
(***************************************************************************)
C21_EventsUpdateAndNotify ==
    handled > 0 =>
        CASE lastEvent.type = "stream_started" ->
                /\ current_stream_id = lastEvent.stream_id
                /\ Notified("stream_started", <<lastEvent.stream_id>>)
          [] lastEvent.type = "stream_ended" ->
                /\ InteractRefuses(current_stream_id)
                /\ Notified("stream_ended", <<>>)
          [] lastEvent.type = "error" ->
                (lastEvent.reason # Absent /\ lastEvent.message # Absent)
                    => Notified("stream_error", <<lastEvent.reason, lastEvent.message>>)
          [] OTHER -> TRUE

(***************************************************************************)
(* C22.  An environment has at most one background context: there is none  *)
(* before the first operation that needs one, a loop thread is started     *)
(* only when none was started before (later operations reuse it), and      *)
(* when close() has ended no context is left running or starting.          *)
(***************************************************************************)
C22_OneBackgroundContext ==
    [][/\ calls = 0 => loop = "none"
       /\ (fgPc # "spawning" /\ fgPc' = "spawning") => loop = "none"
       /\ (fgOp' = "close" /\ fgPc' = "idle" /\ (fgPc # "idle" \/ calls' # calls))
             => loop' \in {"none", "stopped"}]_vars

(***************************************************************************)
(* C23.  _get_observation returns the frame most recently delivered by     *)
(* _on_frame (the frame of the latest call that has run its assignment of  *)
(* latest_frame) and leaves the frame queue's contents and length          *)
(* unchanged: a peek, not a dequeue.                                       *)
(***************************************************************************)
C23_PeekLatest ==
    [][lastObs' # lastObs =>
          /\ lastObs' = latest_frame
          /\ pcFrame # "assign" => lastObs' = pushed
          /\ frame_queue' = frame_queue]_vars

\* the latest of several frames has been observed and the queue still holds
\* every frame pushed
C23_Witness ==
    /\ pushed >= 2
    /\ lastObs = pushed
    /\ dequeued = 0
    /\ Len(frame_queue) = pushed

\* the all-zero image of the declared observation shape
ZeroImage == [frame |-> NoFrame, shape |-> ObservationShape]

(***************************************************************************)
(* C24.  While no frame has been delivered, the observation reset() and    *)
(* step() return is the all-zero image of shape (height, width, 3), made   *)
(* without waiting; reset()'s wait for a first frame is bounded, and with  *)
(* no frame reset() returns that image once the wait has expired.          *)
(***************************************************************************)
C24_ZeroImageWhenNoFrame ==
    [][/\ fgPc' = "frame_wait" => waited' <= FirstFrameTimeout
       /\ (fgPc = "frame_wait" /\ fgPc' = "idle" /\ latest_frame = NoFrame)
             => /\ waited >= FirstFrameTimeout
                /\ fgResult' = "returned"
                /\ fgObs' = ZeroImage
       /\ (/\ fgOp' \in {"reset", "step"}
           /\ fgPc # "idle"
           /\ fgPc' = "idle"
           /\ fgResult' = "returned"
           /\ latest_frame = NoFrame)
             => fgObs' = ZeroImage]_vars

\* reset() has returned the zero image, no frame having arrived
C24_Witness ==
    /\ fgOp = "reset"
    /\ fgPc = "idle"
    /\ fgResult = "returned"
    /\ latest_frame = NoFrame
    /\ fgObs = ZeroImage

\* the prompt holds the phrase
Mentions(prompt, phrase) == \E k \in 1..Len(prompt) : prompt[k] = phrase

\* the phrases of the four axes, positive direction first
AxisPhrases ==
    << <<"move arm right", "move arm left">>,
       <<"move arm forward", "move arm backward">>,
       <<"move arm up", "move arm down">>,
       <<"close gripper", "open gripper">> >>

\* the axis a phrase belongs to (0: none)
AxisOf(phrase) ==
    IF \E n \in 1..4 : phrase \in {AxisPhrases[n][1], AxisPhrases[n][2]}
    THEN CHOOSE n \in 1..4 : phrase \in {AxisPhrases[n][1], AxisPhrases[n][2]}
    ELSE 0

(***************************************************************************)
(* C25.  For a continuous manipulation action (dx, dy, dz, gripper) the    *)
(* instruction holds a phrase of a positional axis exactly when that       *)
(* axis's magnitude exceeds 0.3, the close phrase exactly when gripper >   *)
(* 0.5 and the open phrase exactly when gripper < -0.5; phrases come in    *)
(* axis order with the connective between them; with every axis inside its *)
(* deadband the instruction is empty; [0.4, 0, 0, 0.6] gives the           *)
(* positive-x phrase and the close phrase only.                            *)
(***************************************************************************)
C25_DeadbandPhrases ==
    (translated > 0 /\ task_type = "manipulation") =>
        /\ \A n \in 1..3 :
             /\ Mentions(instruction, AxisPhrases[n][1])
                    <=> (Abs(action[n]) > 30 /\ action[n] > 0)
             /\ Mentions(instruction, AxisPhrases[n][2])
                    <=> (Abs(action[n]) > 30 /\ action[n] < 0)
        /\ Mentions(instruction, "close gripper") <=> action[4] > 50
        /\ Mentions(instruction, "open gripper") <=> action[4] < -50
        /\ \A k \in 1..Len(instruction) :
             IF k % 2 = 0 THEN instruction[k] = Connective
             ELSE /\ AxisOf(instruction[k]) # 0
                  /\ k + 2 <= Len(instruction)
                        => AxisOf(instruction[k]) < AxisOf(instruction[k + 2])
        /\ Len(instruction) % 2 = 0 => instruction = <<>>
        /\ (\A n \in 1..3 : Abs(action[n]) <= 30) /\ Abs(action[4]) <= 50
              => instruction = <<>>
        /\ action = <<40, 0, 0, 60>>
              => instruction = <<"move arm right", Connective, "close gripper">>

\* the example of the claim, translated
C25_Witness ==
    /\ translated > 0
    /\ task_type = "manipulation"
    /\ action = <<40, 0, 0, 60>>
    /\ instruction = <<"move arm right", Connective, "close gripper">>

(***************************************************************************)
(* C26.  When the controller raises during an adaptation step, that cycle  *)
(* is skipped: the environment's conditions stay as they were, the         *)
(* per-episode reward and length accumulators are reset to zero, and       *)
(* _on_step returns True.                                                  *)
(***************************************************************************)
C26_ControllerErrorSkipped ==
    [][(phase = "callback" /\ controllerOutcome' = "raised")
          => /\ env_conditions' = env_conditions
             /\ current_episode_reward' = 0
             /\ current_episode_length' = 0
             /\ onStepResult' = TRUE
             /\ phase' = "env"]_vars

\* the controller raised in an adaptation that followed one which had set the
\* environment's conditions
C26_Witness ==
    /\ controllerOutcome = "raised"
    /\ env_conditions # NoAttr
    /\ env_conditions = lastPerturbation
    /\ current_episode_reward = 0
    /\ onStepResult = TRUE

\* the reply parses to a JSON object that lacks one of the five members
MissingField(r) ==
    /\ r.api = "ok"
    /\ r.hasContent
    /\ JsonLoads(StripFences(r.text)).ok
    /\ JsonLoads(StripFences(r.text)).kind = "OBJ"
    /\ \/ \E key \in {"observation", "failure_mode", "reasoning", "curriculum_prompt"} :
             r.obj[key] = Absent
       \/ r.obj.difficulty_adjustment.k = "absent"

(***************************************************************************)
(* C27.  A reply that parses as JSON but lacks any of the five members     *)
(* observation, failure_mode, reasoning, curriculum_prompt and             *)
(* difficulty_adjustment is a parse failure: evaluate_performance returns  *)
(* the llm_evaluation_error fallback and leaves the difficulty unchanged.  *)
(***************************************************************************)
C27_MissingFieldIsFailure ==
    (evalCalls > 0 /\ MissingField(lastReply)) =>
        /\ evalOutcome = "returned"
        /\ lastJudgment.failure_mode = "llm_evaluation_error"
        /\ difficulty = difficultyBefore

(***************************************************************************)
(* C28.  The judgment history is append-only: a successful                 *)
(* evaluate_performance appends exactly the JudgmentResult it returns as   *)
(* the newest entry, and no operation modifies, reorders or removes an     *)
(* entry: the length never decreases and earlier entries stay as they are. *)
(***************************************************************************)
C28_HistoryAppendOnly ==
    [][/\ Len(evaluation_history') >= Len(evaluation_history)
       /\ SubSeq(evaluation_history', 1, Len(evaluation_history)) = evaluation_history
       /\ (evalCalls' # evalCalls /\ failedCalls' = failedCalls)
             => evaluation_history' = evaluation_history \o <<lastJudgment'>>]_vars

\* three successful evaluations, and a get_recent_judgments(1) after them
C28_Witness ==
    /\ Len(evaluation_history) = 3
    /\ failedCalls = 0
    /\ recentJudgments = <<evaluation_history[3]>>

(***************************************************************************)
(* C29.  get_failure_modes() returns exactly the configured categories     *)
(* whose tally is strictly greater than the mean tally across all          *)
(* categories, each once; it returns the empty list whenever all tallies   *)
(* are equal, all zero included.  tally > total / n is stated as           *)
(* tally * n > total.                                                      *)
(***************************************************************************)
C29_FailureModesAboveMean ==
    fdResult.op = "get_failure_modes" =>
        LET n == Len(categories)
            total == SumSeq(failure_counts)
            modes == fdResult.modes
            above == {i \in 1..n : failure_counts[i] * n > total}
        IN /\ \A i \in 1..n :
                (\E k \in 1..Len(modes) : modes[k] = categories[i]) <=> i \in above
           /\ \A k \in 1..Len(modes) : \E i \in 1..n : modes[k] = categories[i]
           /\ Len(modes) = Cardinality(above)
           /\ (\A i, j \in 1..n : failure_counts[i] = failure_counts[j])
                => modes = <<>>

\* the query made when two categories share a tally above the mean, and made
\* when every tally is the same and not zero
C29_Witness ==
    /\ fdResult.op = "get_failure_modes"
    /\ Len(fdResult.modes) = 2
    /\ \E i \in 1..Len(categories) : failure_counts[i] = 0

C29_WitnessEqual ==
    /\ fdResult.op = "get_failure_modes"
    /\ fdResult.modes = <<>>
    /\ \A i \in 1..Len(categories) : failure_counts[i] > 0

(***************************************************************************)
(* C30.  get_weakest_category() returns a category whose tally is the      *)
(* maximum over all categories, and when several categories share that     *)
(* maximum it returns the one declared first in the configured category    *)
(* list; this holds also after reset_statistics().                         *)
(***************************************************************************)
C30_WeakestIsFirstMaximum ==
    fdResult.op = "get_weakest_category" =>
        \E i \in 1..Len(categories) :
            /\ fdResult.weakest = categories[i]
            /\ \A j \in 1..Len(categories) : failure_counts[j] <= failure_counts[i]
            /\ \A j \in 1..i - 1 : failure_counts[j] < failure_counts[i]

\* the query made after a reset_statistics and a later failure that two
\* categories, neither of them the first, share
C30_Witness ==
    /\ fdResult.op = "get_weakest_category"
    /\ recorded # <<>>
    /\ recorded[1].reward > 1
    /\ Len(categories) > 2
    /\ failure_counts[1] = 0
    /\ failure_counts[2] = 1
    /\ failure_counts[3] = 1
    /\ fdResult.weakest = categories[2]

(***************************************************************************)
(* C31.  reset_statistics() empties all three rolling windows and sets     *)
(* every category's tally to zero while leaving window_size,               *)
(* min_success_rate and the configured category list unchanged; afterwards *)
(* get_success_rate() is 0.0 and should_adapt() is false until enough new  *)
(* episodes are recorded (here: right after the reset, when none is).      *)
(***************************************************************************)
C31_ResetClearsAndHoldsOff ==
    [][ResetStatistics =>
         /\ episode_rewards' = <<>>
         /\ episode_successes' = <<>>
         /\ episode_lengths' = <<>>
         /\ \A i \in 1..Len(categories') : failure_counts'[i] = 0
         /\ window_size' = window_size
         /\ min_success_rate' = min_success_rate
         /\ categories' = categories
         /\ GetSuccessRate(episode_successes').num = 0
         /\ ~ShouldAdapt(episode_successes', window_size', min_success_rate')]_vars

(***************************************************************************)
(* C32.  TargetedStrategy returns an instruction from the example list of  *)
(* the category named by the first element of failure_modes when that      *)
(* category is configured; when failure_modes is empty or its first        *)
(* element is not a configured category, it returns an instruction drawn   *)
(* from the union of all categories' examples.  In every case the result   *)
(* is one of the configured example instructions.                          *)
(***************************************************************************)
C32_TargetedFirstModeOrRandom ==
    selectCall.strategy = "targeted" =>
        LET cats == perturbation_categories
            modes == selectCall.failure_modes
            all == UNION {Range(cats[i].examples) : i \in 1..Len(cats)}
            named == {i \in 1..Len(cats) : modes # <<>> /\ cats[i].name = modes[1]}
        IN /\ \A i \in named :
                /\ selectCall.result \in Range(cats[i].examples)
                /\ selectCall.choices = Range(cats[i].examples)
           /\ named = {} => selectCall.choices = all
           /\ selectCall.result \in all

\* two configured categories detected, and an example of the first returned
C32_Witness ==
    /\ selectCall.strategy = "targeted"
    /\ selectCall.failure_modes = <<"visual", "occlusion">>
    /\ Configured("visual", perturbation_categories)
    /\ selectCall.result = "desaturate the scene"

\* a first failure mode that is no configured category: the random fallback
C32_WitnessFallback ==
    /\ selectCall.strategy = "targeted"
    /\ selectCall.failure_modes = <<"glare", "occlusion">>
    /\ selectCall.result = "place similar objects nearby"

(***************************************************************************)
(* C33.  ProgressiveStrategy chooses the category from the success rate    *)
(* alone: below 0.3 the easiest category (visual), for a rate in 0.3-0.6   *)
(* the medium category (lighting), and only for a rate above 0.6 the       *)
(* hardest category (occlusion); for a fixed success rate the set of       *)
(* possible results is the same for every failure_modes argument.          *)
(***************************************************************************)
C33_ProgressiveBands ==
    selectCall.strategy = "progressive" =>
        LET cats == perturbation_categories
            rate == selectCall.success_rate
            category == IF rate < 30 THEN "visual"
                        ELSE IF rate <= 60 THEN "lighting"
                        ELSE "occlusion"
        IN /\ Configured(category, cats) =>
                selectCall.choices = Examples(category, cats)
           /\ \A modes \in FailureModeLists :
                selectCall.choices = ProgressiveStrategy(modes, rate, cats)

(***************************************************************************)
(* C34.  step() submits an interact call to the bridge if and only if the  *)
(* translated instruction is non-empty: an empty instruction sends nothing *)
(* to the simulator for that step, while the step counter still advances   *)
(* by exactly one and terminated becomes true exactly when the counter     *)
(* reaches episode_length.  Stated of a step that has returned; an        *)
(* interact is submitted when step hands it to _run_coroutine, which       *)
(* schedules it on the loop unless there is no loop to take it.            *)
(***************************************************************************)
C34_InteractIffInstruction ==
    (fgOp = "step" /\ fgPc = "idle") =>
        /\ stepCall.submitted <=> stepCall.prompt # <<>>
        /\ stepCall.prompt # <<>> =>
              \/ /\ Len(tasks) = stepCall.tasksBefore + 1
                 /\ tasks[Len(tasks)].kind = "interact"
                 /\ tasks[Len(tasks)].arg = stepCall.prompt
              \/ /\ Len(tasks) = stepCall.tasksBefore
                 /\ bridgeOutcome = "AttributeError"
        /\ stepCall.prompt = <<>> =>
              /\ Len(tasks) = stepCall.tasksBefore
              /\ \A k \in 1..Len(sent) : sent[k].by <= stepCall.tasksBefore
        /\ current_step = stepCall.stepBefore + 1
        /\ terminated <=> current_step >= episode_length

\* a step with the empty instruction on a started stream, which ends the
\* episode
C34_Witness ==
    /\ fgOp = "step"
    /\ fgPc = "idle"
    /\ stepCall.prompt = <<>>
    /\ stream_id # NoStream
    /\ current_step = episode_length
    /\ terminated

(***************************************************************************)
(* C35.  The client's current_stream_id is set only between a start_stream *)
(* request and the next end_stream: a stream_started event delivered after *)
(* end_stream() has completed (a late or stale acknowledgment) does not    *)
(* put the session back into a state in which interact() is accepted and   *)
(* sent.  Stated of the calls in their order: an interact called after a   *)
(* completed end_stream, with no start_stream between them, sends nothing, *)
(* and with no call running after such an end_stream no id is set.         *)
(***************************************************************************)
C35_NoStreamAfterEnd ==
    \A e \in 1..Len(tasks) :
        (/\ tasks[e].kind = "end_stream"
         /\ tasks[e].state = "done"
         /\ \A k \in e + 1..Len(tasks) : tasks[k].kind # "start_stream")
        => /\ \A i \in e + 1..Len(tasks), k \in 1..Len(sent) :
                ~(tasks[i].kind = "interact" /\ sent[k].type = "interact"
                    /\ sent[k].by = i)
           /\ current_stream_id = NoStream

(***************************************************************************)
(* C36.  After reset() has started a new stream, the observation it        *)
(* returns is either a frame delivered for the new stream or the all-zero  *)
(* image: a frame delivered for a previous stream is never returned as the *)
(* new episode's first observation, and reset waits (up to its bound) for  *)
(* a frame of the new stream.  The new stream is the one of the last       *)
(* start_stream request sent.                                              *)
(***************************************************************************)
C36_FirstObservationIsFresh ==
    (fgOp = "reset" /\ fgPc = "idle" /\ fgResult = "returned") =>
        \/ fgObs.frame = NoFrame
        \/ frameStream[fgObs.frame] = StartsSent

(***************************************************************************)
(* C37.  After close() has returned, a further reset() or step() on the    *)
(* same environment instance executes no work on the background context:   *)
(* the stopped scheduler is not restarted and no new one is created, so    *)
(* every later submission ends in the 30-unit timeout instead of           *)
(* completing.  Stated of every step taken once close() has stopped the    *)
(* loop: the loop stays stopped, no coroutine and no receive loop moves,   *)
(* and a wait in _run_coroutine ends in TimeoutError only.                 *)
(***************************************************************************)
C37_NothingRunsAfterClose ==
    [][loop = "stopped" =>
         /\ loop' = "stopped"
         /\ \A i \in 1..Len(tasks) : tasks'[i] = tasks[i]
         /\ UNCHANGED <<session, current_stream_id, receiving_task, receivedAcks,
                        errorVars, sent, frame_queue, latest_frame>>
         /\ (fgPc = "waiting" /\ fgPc' # "waiting") =>
               /\ waited = RunCoroutineTimeout
               /\ bridgeOutcome' = "TimeoutError"]_vars

\* a step on a closed environment that had a client and a stream has returned
\* after its interact timed out
C37_Witness ==
    /\ loop = "stopped"
    /\ env_client
    /\ stream_id # NoStream
    /\ fgOp = "step"
    /\ fgPc = "idle"
    /\ bridgeOutcome = "TimeoutError"
    /\ tasks[Len(tasks)].kind = "interact"
    /\ tasks[Len(tasks)].state = "pending"

(***************************************************************************)
(* C38.  Under any interleaving of one producer with consumer dequeues,    *)
(* once _on_frame(f) has returned, f is the newest element of the frame    *)
(* queue: the overflow path never finds the queue full, fails its eviction *)
(* or re-insertion, and returns with f absent from the queue.  Stated of   *)
(* the step with which _on_frame returns.                                  *)
(***************************************************************************)
C38_PushedFrameIsNewest ==
    [][(pcFrame # "idle" /\ pcFrame' = "idle") =>
          /\ frame_queue' # <<>>
          /\ frame_queue'[Len(frame_queue')] = curFrame
          /\ dropped' = dropped]_vars

(***************************************************************************)
(* C39.  The judgment history holds the results of successful evaluations  *)
(* only: an evaluation that fails leaves the history as it was, its length *)
(* and its entries, and returns the fallback judgment when the exception   *)
(* is caught; the history has one entry for each evaluation that           *)
(* succeeded; and no entry of the history, hence none that                 *)
(* get_recent_judgments returns, carries the failure_mode label of the     *)
(* fallback.                                                               *)
(***************************************************************************)
C39_HistoryHoldsSuccessesOnly ==
    [][/\ failedCalls' # failedCalls =>
             /\ evaluation_history' = evaluation_history
             /\ evalOutcome' = "returned" =>
                   lastJudgment'.failure_mode = "llm_evaluation_error"
       /\ Len(evaluation_history') = evalCalls' - failedCalls'
       /\ \A i \in 1..Len(evaluation_history') :
             evaluation_history'[i].failure_mode # "llm_evaluation_error"
       /\ \A i \in 1..Len(recentJudgments') :
             recentJudgments'[i].failure_mode # "llm_evaluation_error"]_vars

\* a success, then a failure that returned the fallback, then a
\* get_recent_judgments that returned the one entry of the history
C39_Witness ==
    /\ failedCalls > 0
    /\ evalOutcome = "returned"
    /\ lastJudgment.failure_mode = "llm_evaluation_error"
    /\ evaluation_history # <<>>
    /\ recentJudgments = evaluation_history

(***************************************************************************)
(* C40.  The failure tallies are cumulative between resets, not windowed:  *)
(* no record_episode call lowers the tally of any category, the call that  *)
(* evicts the oldest episode of a full window included, whatever that      *)
(* episode had added to the tallies.  (That a tally can then exceed        *)
(* window_size and the failures in the window is the state C40_Witness.)   *)
(***************************************************************************)
C40_TalliesCumulative ==
    [][RecordEpisode =>
          /\ Len(failure_counts') = Len(failure_counts)
          /\ \A i \in 1..Len(failure_counts) :
                /\ failure_counts'[i] >= failure_counts[i]
                /\ failure_counts'[i] <= failure_counts[i] + 1
          /\ (Len(episode_successes) = window_size /\ fdCall'.success) =>
                failure_counts' = failure_counts]_vars

\* more episodes recorded than the window holds, and a tally above both
\* window_size and the number of failures in the window
C40_Witness ==
    /\ fdCall.op = "record"
    /\ Len(recorded) > window_size
    /\ Len(episode_successes) = window_size
    /\ \E i \in 1..Len(failure_counts) :
          /\ failure_counts[i] > window_size
          /\ failure_counts[i] > Len(episode_successes) - CountTrue(episode_successes)

====
